---------------------------- MODULE Spec2Model ----------------------------
(***************************************************************************)
(* Server side of the SSLv3/TLS 1.0-1.2 handshake of library/ssl_srv.c:    *)
(* the one-step driver ssl_handshake_server_step, the ClientHello parsers  *)
(* (modern and SSLv2-compatible), the extension parsers, and the server    *)
(* message builders / client response parsers the driver dispatches to.    *)
(*                                                                         *)
(* The ssl_context (with its handshake scratch and negotiating session) is *)
(* the record ssl; the bytes the peer put on the wire are net.  A driver   *)
(* call is one action; what its collaborators (record layer, RNG, crypto,  *)
(* callbacks) answer during the call is drawn with \E from small sets.     *)
(* Numeric values of wire constants are those of polarssl/ssl.h, which are *)
(* the registry values of RFC 5246 / 4492 / 5746.                          *)
(***************************************************************************)
EXTENDS Integers, Sequences, FiniteSets, TLC

\* twin: a second handshake run side by side with the first (its context
\* and its wire), where two ClientHellos are compared; NULL otherwise
VARIABLES ssl, net, recalls, twin

vars == <<ssl, net, recalls, twin>>

(***************************************************************************)
(* Bounds of the model.                                                    *)
(***************************************************************************)
\* longest ciphersuite list a modelled client advertises
MaxCiphers == 2
\* most extensions a modelled ClientHello carries
MaxExts == 2
\* driver calls the caller still makes after a terminal error was returned
MaxRecalls == 1
\* how many calls of a handshake may block when the caller keeps calling
MaxBlocked == 2
\* byte lengths of the server's RSA modulus, of the peer certificate's RSA
\* modulus and of the DH prime
RsaKeyLen == 3
PeerRsaLen == 2
DhmLen == 2

(***************************************************************************)
(* Handshake states, in the order of the ssl_states enum.                  *)
(***************************************************************************)
SSL_HELLO_REQUEST == 0
SSL_CLIENT_HELLO == 1
SSL_SERVER_HELLO == 2
SSL_SERVER_CERTIFICATE == 3
SSL_SERVER_KEY_EXCHANGE == 4
SSL_CERTIFICATE_REQUEST == 5
SSL_SERVER_HELLO_DONE == 6
SSL_CLIENT_CERTIFICATE == 7
SSL_CLIENT_KEY_EXCHANGE == 8
SSL_CERTIFICATE_VERIFY == 9
SSL_CLIENT_CHANGE_CIPHER_SPEC == 10
SSL_CLIENT_FINISHED == 11
SSL_SERVER_CHANGE_CIPHER_SPEC == 12
SSL_SERVER_FINISHED == 13
SSL_FLUSH_BUFFERS == 14
SSL_HANDSHAKE_WRAPUP == 15
SSL_HANDSHAKE_OVER == 16

(***************************************************************************)
(* Wire constants.                                                         *)
(***************************************************************************)
SSL_MAJOR_VERSION_3 == 3
SSL_MINOR_VERSION_0 == 0
SSL_MINOR_VERSION_3 == 3
SSL_MSG_HANDSHAKE == 22
SSL_HS_CLIENT_HELLO == 1
SSL_HS_CERTIFICATE_VERIFY == 15
SSL_HS_CLIENT_KEY_EXCHANGE == 16
SSL_EMPTY_RENEGOTIATION_INFO == 255
SSL_COMPRESS_NULL == 0
SSL_COMPRESS_DEFLATE == 1
SSL_HASH_NONE == 0
SSL_HASH_MD5 == 1
SSL_HASH_SHA1 == 2
SSL_HASH_SHA224 == 3
SSL_HASH_SHA256 == 4
SSL_HASH_SHA384 == 5
SSL_HASH_SHA512 == 6
SSL_SIG_RSA == 1
TLS_EXT_SERVERNAME == 0
TLS_EXT_SERVERNAME_HOSTNAME == 0
TLS_EXT_SUPPORTED_ELLIPTIC_CURVES == 10
TLS_EXT_SUPPORTED_POINT_FORMATS == 11
TLS_EXT_SIG_ALG == 13
TLS_EXT_RENEGOTIATION_INFO == 65281
POLARSSL_ECP_DP_SECP192R1 == 19
POLARSSL_ECP_DP_SECP224R1 == 21
POLARSSL_ECP_DP_SECP256R1 == 23
POLARSSL_ECP_DP_SECP384R1 == 24
POLARSSL_ECP_DP_SECP521R1 == 25
POLARSSL_ECP_PF_UNCOMPRESSED == 0
POLARSSL_ECP_PF_COMPRESSED == 1

(***************************************************************************)
(* Enumerations whose numeric value never reaches the wire.                *)
(***************************************************************************)
SSL_INITIAL_HANDSHAKE == "INITIAL_HANDSHAKE"
SSL_RENEGOTIATION == "RENEGOTIATION"
SSL_LEGACY_RENEGOTIATION == "LEGACY_RENEGOTIATION"
SSL_SECURE_RENEGOTIATION == "SECURE_RENEGOTIATION"
SSL_LEGACY_NO_RENEGOTIATION == "LEGACY_NO_RENEGOTIATION"
SSL_LEGACY_ALLOW_RENEGOTIATION == "LEGACY_ALLOW_RENEGOTIATION"
SSL_LEGACY_BREAK_HANDSHAKE == "LEGACY_BREAK_HANDSHAKE"
SSL_VERIFY_NONE == "VERIFY_NONE"
SSL_VERIFY_OPTIONAL == "VERIFY_OPTIONAL"
SSL_VERIFY_REQUIRED == "VERIFY_REQUIRED"
SSL_ALERT_MSG_PROTOCOL_VERSION == "protocol_version"
SSL_ALERT_MSG_UNRECOGNIZED_NAME == "unrecognized_name"
SSL_ALERT_MSG_HANDSHAKE_FAILURE == "handshake_failure"
POLARSSL_KEY_EXCHANGE_RSA == "RSA"
POLARSSL_KEY_EXCHANGE_DHE_RSA == "DHE_RSA"
POLARSSL_KEY_EXCHANGE_ECDHE_RSA == "ECDHE_RSA"
POLARSSL_KEY_EXCHANGE_PSK == "PSK"
POLARSSL_KEY_EXCHANGE_DHE_PSK == "DHE_PSK"
POLARSSL_MD_SHA1 == "MD_SHA1"
POLARSSL_MD_SHA256 == "MD_SHA256"
POLARSSL_MD_SHA384 == "MD_SHA384"

(***************************************************************************)
(* Statuses a driver call returns.  OK is the C value 0; NONE marks that   *)
(* no call has returned yet.                                               *)
(***************************************************************************)
OK == "OK"
NONE == "NONE"
POLARSSL_ERR_NET_WANT_READ == "WANT_READ"
POLARSSL_ERR_NET_WANT_WRITE == "WANT_WRITE"
POLARSSL_ERR_NET_CONN_RESET == "NET_CONN_RESET"
POLARSSL_ERR_SSL_BAD_HS_CLIENT_HELLO == "BAD_HS_CLIENT_HELLO"
POLARSSL_ERR_SSL_BAD_HS_PROTOCOL_VERSION == "BAD_HS_PROTOCOL_VERSION"
POLARSSL_ERR_SSL_BAD_HS_CLIENT_KEY_EXCHANGE == "BAD_HS_CLIENT_KEY_EXCHANGE"
POLARSSL_ERR_SSL_BAD_HS_CLIENT_KEY_EXCHANGE_RP == "BAD_HS_CLIENT_KEY_EXCHANGE_RP"
POLARSSL_ERR_SSL_BAD_HS_CLIENT_KEY_EXCHANGE_CS == "BAD_HS_CLIENT_KEY_EXCHANGE_CS"
POLARSSL_ERR_SSL_BAD_HS_CERTIFICATE_VERIFY == "BAD_HS_CERTIFICATE_VERIFY"
POLARSSL_ERR_SSL_NO_CIPHER_CHOSEN == "NO_CIPHER_CHOSEN"
POLARSSL_ERR_SSL_PRIVATE_KEY_REQUIRED == "PRIVATE_KEY_REQUIRED"
POLARSSL_ERR_SSL_FEATURE_UNAVAILABLE == "FEATURE_UNAVAILABLE"
POLARSSL_ERR_SSL_BAD_INPUT_DATA == "BAD_INPUT_DATA"
POLARSSL_ERR_RNG_FAILED == "RNG_FAILED"
POLARSSL_ERR_CRYPTO_FAILED == "CRYPTO_FAILED"

\* statuses with which the record layer asks to be called again
\* a non-zero answer of the f_sni or f_get_cache callback
ERR_CALLBACK == "CALLBACK"
\* the "return( -1 )" of ssl_write_server_key_exchange
ERR_MINUS_ONE == "-1"

Retryable == {POLARSSL_ERR_NET_WANT_READ, POLARSSL_ERR_NET_WANT_WRITE}

\* the length of an RSA premaster secret
PremasterLen == 48
\* ssl->verify_data_len of a TLS handshake
VerifyDataLen == 12

\* how many bytes of the premaster buffer an earlier use left behind
StalePremasterLen == 4

(***************************************************************************)
(* Byte arithmetic.                                                        *)
(***************************************************************************)
\* ( hi << 8 ) | lo
U16(hi, lo) == hi * 256 + lo
\* (unsigned char)( n >> 8 )
Hi(n) == (n \div 256) % 256
\* (unsigned char)( n )
Lo(n) == n % 256
\* n copies of byte v
Fill(n, v) == [i \in 1..n |-> v]

RECURSIVE Flatten(_)
\* concatenation of a sequence of byte strings
Flatten(ss) == IF ss = <<>> THEN <<>> ELSE Head(ss) \o Flatten(Tail(ss))

\* buf[i] of the buffer starting at ssl->in_msg: the fetched bytes, then
\* whatever the (zero-initialised, reused) input buffer held before
Msg(s, i) == IF i < Len(s.in_msg) THEN s.in_msg[i + 1] ELSE s.in_stale
\* buf[i] of the buffer starting at ssl->in_hdr
Hdr(s, i) == IF i < Len(s.in_hdr) THEN s.in_hdr[i + 1] ELSE Msg(s, i - 5)


(***************************************************************************)
(* The ciphersuite table of ssl_ciphersuites.c, restricted to the suites   *)
(* the modelled configurations use.  Suite 1 (TLS_RSA_WITH_NULL_MD5) is    *)
(* not compiled in by default, so looking it up gives NULL.                *)
(***************************************************************************)
\* what ssl_ciphersuite_from_id returns for an id that is not in the table
NULL == [null |-> TRUE]
TLS_RSA_WITH_NULL_MD5 == 1
TLS_RSA_WITH_RC4_128_SHA == 5
TLS_RSA_WITH_AES_128_CBC_SHA == 47
TLS_DHE_RSA_WITH_AES_128_CBC_SHA == 51
TLS_RSA_WITH_AES_128_CBC_SHA256 == 60
TLS_PSK_WITH_AES_128_CBC_SHA == 140
TLS_DHE_PSK_WITH_AES_128_CBC_SHA == 144
TLS_RSA_WITH_AES_256_GCM_SHA384 == 157
TLS_ECDHE_RSA_WITH_AES_128_CBC_SHA == 49171
\* the signalling value 0x00,0xFF as a two-byte suite id
TLS_EMPTY_RENEGOTIATION_INFO_SCSV == 255

SuiteInfo(kx, lo, hi, isEc, macAlg) ==
    [key_exchange |-> kx, min_minor_ver |-> lo, max_minor_ver |-> hi,
     ec |-> isEc, mac |-> macAlg]

ssl_ciphersuite_from_id(id) ==
    CASE id = TLS_RSA_WITH_RC4_128_SHA ->
           SuiteInfo(POLARSSL_KEY_EXCHANGE_RSA, 0, 3, FALSE, POLARSSL_MD_SHA1)
      [] id = TLS_RSA_WITH_AES_128_CBC_SHA ->
           SuiteInfo(POLARSSL_KEY_EXCHANGE_RSA, 0, 3, FALSE, POLARSSL_MD_SHA1)
      [] id = TLS_DHE_RSA_WITH_AES_128_CBC_SHA ->
           SuiteInfo(POLARSSL_KEY_EXCHANGE_DHE_RSA, 0, 3, FALSE, POLARSSL_MD_SHA1)
      [] id = TLS_RSA_WITH_AES_128_CBC_SHA256 ->
           SuiteInfo(POLARSSL_KEY_EXCHANGE_RSA, 3, 3, FALSE, POLARSSL_MD_SHA256)
      [] id = TLS_PSK_WITH_AES_128_CBC_SHA ->
           SuiteInfo(POLARSSL_KEY_EXCHANGE_PSK, 0, 3, FALSE, POLARSSL_MD_SHA1)
      [] id = TLS_DHE_PSK_WITH_AES_128_CBC_SHA ->
           SuiteInfo(POLARSSL_KEY_EXCHANGE_DHE_PSK, 0, 3, FALSE, POLARSSL_MD_SHA1)
      [] id = TLS_RSA_WITH_AES_256_GCM_SHA384 ->
           SuiteInfo(POLARSSL_KEY_EXCHANGE_RSA, 3, 3, FALSE, POLARSSL_MD_SHA384)
      [] id = TLS_ECDHE_RSA_WITH_AES_128_CBC_SHA ->
           SuiteInfo(POLARSSL_KEY_EXCHANGE_ECDHE_RSA, 1, 3, TRUE, POLARSSL_MD_SHA1)
      [] OTHER -> NULL

(***************************************************************************)
(* What the peer puts on the wire.  A ClientHello is described by a record *)
(* h and laid out as the parsers' layout comments give it; h.fault names   *)
(* one way in which the peer may frame it wrongly (the declared lengths    *)
(* then disagree with the bytes actually sent).                            *)
(***************************************************************************)
\* one extension: 2-byte id, 2-byte size, body
EncodeExt(x, grow) ==
    <<Hi(x.id), Lo(x.id), Hi(Len(x.body) + grow), Lo(Len(x.body) + grow)>>
        \o x.body

\* the extensions block after its 2-byte length
EncodeExts(h) ==
    Flatten([i \in 1..Len(h.exts) |->
                EncodeExt(h.exts[i],
                          IF h.fault = "ext_size" /\ i = Len(h.exts)
                          THEN 1 ELSE 0)])
        \o (IF h.fault = "ext_slack" THEN <<0, 0>> ELSE <<>>)

\* the handshake message of a modern ClientHello (the bytes at ssl->in_msg)
EncodeClientHello(h) ==
    LET ciph == Flatten([i \in 1..Len(h.ciphers) |->
                            <<Hi(h.ciphers[i]), Lo(h.ciphers[i])>>])
        sessDecl == IF h.fault = "sess_len" THEN 33 ELSE Len(h.sess)
        ciphDecl == CASE h.fault = "ciph_odd"  -> Len(ciph) + 1
                      [] h.fault = "ciph_zero" -> 0
                      [] h.fault = "ciph_big"  -> 258
                      [] OTHER -> Len(ciph)
        compDecl == CASE h.fault = "comp_zero" -> 0
                      [] h.fault = "comp_big"  -> 17
                      [] h.fault = "comp_over" -> 16
                      [] OTHER -> Len(h.comps)
        ext == EncodeExts(h)
        extDecl == CASE h.fault = "ext_len"   -> Len(ext) + 1
                     [] h.fault = "ext_short" -> 2
                     [] OTHER -> Len(ext)
        extBlock == IF ext = <<>> /\ h.fault # "ext_short" THEN <<>>
                    ELSE <<Hi(extDecl), Lo(extDecl)>> \o ext
        rest == <<(IF h.fault = "hs_major" THEN 2 ELSE SSL_MAJOR_VERSION_3),
                  h.minor>>
                \o Fill(32, 65) \o <<sessDecl>> \o h.sess
                \o <<Hi(ciphDecl), Lo(ciphDecl)>> \o ciph
                \o <<compDecl>> \o h.comps \o extBlock
        hsLen == Len(rest) + (IF h.fault = "hs_len" THEN 1 ELSE 0)
    IN  <<(IF h.fault = "hs_type" THEN 2 ELSE SSL_HS_CLIENT_HELLO),
          (IF h.fault = "hs_len_hi" THEN 1 ELSE 0), Hi(hsLen), Lo(hsLen)>>
        \o rest

\* the 5-byte record header in front of a modern ClientHello of n bytes
EncodeRecordHeader(h, n) ==
    LET decl == CASE h.fault = "rec_short" -> 44
                  [] h.fault = "rec_long"  -> 513
                  [] OTHER -> n
    IN  <<(IF h.fault = "rec_type" THEN 21 ELSE SSL_MSG_HANDSHAKE),
          (IF h.fault = "rec_major" THEN 2 ELSE SSL_MAJOR_VERSION_3),
          h.minor, Hi(decl), Lo(decl)>>

\* an SSLv2-compatible ClientHello: 2-byte record length with the high bit
\* set, message type, version, three 2-byte lengths, then the three fields
EncodeClientHelloV2(h) ==
    LET ciph == Flatten([i \in 1..Len(h.ciphers) |->
                            <<0, Hi(h.ciphers[i]), Lo(h.ciphers[i])>>])
        ciphDecl == CASE h.fault = "ciph_odd"  -> Len(ciph) + 1
                      [] h.fault = "ciph_zero" -> 0
                      [] OTHER -> Len(ciph)
        sessDecl == IF h.fault = "sess_len" THEN 33 ELSE Len(h.sess)
        chalDecl == IF h.fault = "chal_len" THEN 33 ELSE Len(h.chal)
        body == <<Hi(ciphDecl), Lo(ciphDecl), Hi(sessDecl), Lo(sessDecl),
                  Hi(chalDecl), Lo(chalDecl)>>
                \o ciph \o h.sess \o h.chal
        n == CASE h.fault = "rec_short" -> 16
               [] h.fault = "rec_long"  -> 513
               [] OTHER -> 3 + Len(body)
    IN  <<128 + Hi(n), Lo(n),
          (IF h.fault = "hs_type" THEN 2 ELSE SSL_HS_CLIENT_HELLO),
          (IF h.fault = "hs_major" THEN 2 ELSE SSL_MAJOR_VERSION_3),
          h.minor>>
        \o body

\* the bytes of the record carrying ClientHello h
Wire(h) ==
    IF h.v2 THEN EncodeClientHelloV2(h)
    ELSE LET m == EncodeClientHello(h)
         IN  EncodeRecordHeader(h, Len(m)) \o m

(***************************************************************************)
(* Returning from a C function: the status is kept in the field ret of the *)
(* context the function hands back.                                        *)
(***************************************************************************)
Return(s, status) == [s EXCEPT !.ret = status]

(***************************************************************************)
(* Record-layer collaborators (ssl_tls.c).  The argument r is what the     *)
(* transport answers during this call.                                     *)
(***************************************************************************)
\* ssl_fetch_input( ssl, nb_want ): nothing is read when in_left already
\* covers nb_want; otherwise exactly the missing bytes are read
ssl_fetch_input(s, wire, nb_want, r) ==
    IF s.in_left >= nb_want THEN Return(s, OK)
    ELSE IF r = OK /\ Len(wire) >= nb_want
         THEN [s EXCEPT !.in_left = nb_want,
                        !.in_hdr = SubSeq(wire, 1, 5),
                        !.in_msg = SubSeq(wire, 6, nb_want),
                        !.ret = OK]
         ELSE Return(s, IF r = OK THEN POLARSSL_ERR_NET_WANT_READ ELSE r)

\* ssl_send_alert_message( ssl, SSL_ALERT_LEVEL_FATAL, msg )
ssl_send_alert_message(s, e, msg) ==
    [s EXCEPT !.alerts = Append(@, msg), !.ret = e.alert]

\* ssl_send_fatal_handshake_failure( ssl )
ssl_send_fatal_handshake_failure(s, e) ==
    ssl_send_alert_message(s, e, SSL_ALERT_MSG_HANDSHAKE_FAILURE)

\* the idiom  if( ( ret = ssl_send_fatal_handshake_failure( ssl ) ) != 0 )
\*                return( ret );
\*            return( status );
FatalHandshakeFailure(s, e, status) ==
    LET a == ssl_send_fatal_handshake_failure(s, e)
    IN  IF a.ret # OK THEN a ELSE Return(a, status)

\* ssl->handshake->update_checksum( ssl, buf, n ) for the message named msg
update_checksum(s, msg) == [s EXCEPT !.transcript = Append(@, msg)]

(***************************************************************************)
(* Extension parsers.  buf is the offset of the extension body in in_msg,  *)
(* len its declared size.                                                  *)
(***************************************************************************)
RECURSIVE ServernameLoop(_, _, _, _)
ServernameLoop(s, e, p, servername_list_size) ==
    IF servername_list_size = 0 THEN Return(s, OK)
    ELSE LET hostname_len == U16(Msg(s, p + 1), Msg(s, p + 2))
         IN  IF hostname_len + 3 > servername_list_size
             THEN Return(s, POLARSSL_ERR_SSL_BAD_HS_CLIENT_HELLO)
             ELSE IF Msg(s, p) = TLS_EXT_SERVERNAME_HOSTNAME
                  THEN LET c == [s EXCEPT !.sni_calls = @ + 1,
                                          !.sni_name =
                                              [k \in 1..hostname_len |->
                                                  Msg(s, p + 2 + k)]]
                       IN  IF e.sni # OK
                           THEN Return(ssl_send_alert_message(c, e,
                                           SSL_ALERT_MSG_UNRECOGNIZED_NAME),
                                       POLARSSL_ERR_SSL_BAD_HS_CLIENT_HELLO)
                           ELSE Return(c, OK)
                  ELSE ServernameLoop(s, e, p + hostname_len + 3,
                                      servername_list_size - (hostname_len + 3))

\* a variant of the loop that calls f_sni and does not look at what it
\* returns
RECURSIVE ServernameLoopTrusting(_, _, _, _)
ServernameLoopTrusting(s, e, p, servername_list_size) ==
    IF servername_list_size = 0 THEN Return(s, OK)
    ELSE LET hostname_len == U16(Msg(s, p + 1), Msg(s, p + 2))
         IN  IF hostname_len + 3 > servername_list_size
             THEN Return(s, POLARSSL_ERR_SSL_BAD_HS_CLIENT_HELLO)
             ELSE IF Msg(s, p) = TLS_EXT_SERVERNAME_HOSTNAME
                  THEN Return([s EXCEPT !.sni_calls = @ + 1,
                                        !.sni_name =
                                            [k \in 1..hostname_len |->
                                                Msg(s, p + 2 + k)]], OK)
                  ELSE ServernameLoopTrusting(s, e, p + hostname_len + 3,
                           servername_list_size - (hostname_len + 3))

ssl_parse_servername_ext_trusting(s, e, buf, len) ==
    LET servername_list_size == U16(Msg(s, buf), Msg(s, buf + 1))
    IN  IF servername_list_size + 2 # len
        THEN Return(s, POLARSSL_ERR_SSL_BAD_HS_CLIENT_HELLO)
        ELSE ServernameLoopTrusting(s, e, buf + 2, servername_list_size)

ssl_parse_servername_ext(s, e, buf, len) ==
    LET servername_list_size == U16(Msg(s, buf), Msg(s, buf + 1))
    IN  IF servername_list_size + 2 # len
        THEN Return(s, POLARSSL_ERR_SSL_BAD_HS_CLIENT_HELLO)
        ELSE ServernameLoop(s, e, buf + 2, servername_list_size)

\* memcmp( in_msg + at, data, n ) = 0
SameBytes(s, at, data, n) == \A k \in 0..(n - 1) : Msg(s, at + k) = data[k + 1]

\* a variant that checks the extension of an initial handshake and leaves
\* secure_renegotiation alone
ssl_parse_renegotiation_info_unset(s, e, buf, len) ==
    IF s.renegotiation = SSL_INITIAL_HANDSHAKE
    THEN IF len # 1 \/ Msg(s, buf) # 0
         THEN FatalHandshakeFailure(s, e, POLARSSL_ERR_SSL_BAD_HS_CLIENT_HELLO)
         ELSE Return(s, OK)
    ELSE IF \/ len # 1 + s.verify_data_len
            \/ Msg(s, buf) # s.verify_data_len
            \/ ~SameBytes(s, buf + 1, s.peer_verify_data, s.verify_data_len)
         THEN FatalHandshakeFailure(s, e, POLARSSL_ERR_SSL_BAD_HS_CLIENT_HELLO)
         ELSE Return(s, OK)

ssl_parse_renegotiation_info(s, e, buf, len) ==
    IF s.renegotiation = SSL_INITIAL_HANDSHAKE
    THEN IF len # 1 \/ Msg(s, buf) # 0
         THEN FatalHandshakeFailure(s, e, POLARSSL_ERR_SSL_BAD_HS_CLIENT_HELLO)
         ELSE [s EXCEPT !.secure_renegotiation = SSL_SECURE_RENEGOTIATION,
                        !.ret = OK]
    ELSE IF \/ len # 1 + s.verify_data_len
            \/ Msg(s, buf) # s.verify_data_len
            \/ ~SameBytes(s, buf + 1, s.peer_verify_data, s.verify_data_len)
         THEN FatalHandshakeFailure(s, e, POLARSSL_ERR_SSL_BAD_HS_CLIENT_HELLO)
         ELSE Return(s, OK)

\* the hashes the if-chain of ssl_parse_signature_algorithms_ext accepts
SigAlgHashes ==
    {SSL_HASH_SHA512, SSL_HASH_SHA384, SSL_HASH_SHA256, SSL_HASH_SHA224,
     SSL_HASH_SHA1, SSL_HASH_MD5}

RECURSIVE SigAlgLoop(_, _, _)
SigAlgLoop(s, p, sig_alg_list_size) ==
    IF sig_alg_list_size <= 0 THEN Return(s, OK)
    ELSE IF Msg(s, p + 1) # SSL_SIG_RSA
         THEN SigAlgLoop(s, p + 2, sig_alg_list_size - 2)
         ELSE IF Msg(s, p) \in SigAlgHashes
              THEN [s EXCEPT !.handshake.sig_alg = Msg(s, p), !.ret = OK]
              ELSE SigAlgLoop(s, p + 2, sig_alg_list_size - 2)

ssl_parse_signature_algorithms_ext(s, buf, len) ==
    LET sig_alg_list_size == U16(Msg(s, buf), Msg(s, buf + 1))
    IN  IF sig_alg_list_size + 2 # len \/ sig_alg_list_size % 2 # 0
        THEN Return(s, POLARSSL_ERR_SSL_BAD_HS_CLIENT_HELLO)
        ELSE SigAlgLoop(s, buf + 2, sig_alg_list_size)

\* the named curves compiled in
SupportedCurves ==
    {POLARSSL_ECP_DP_SECP192R1, POLARSSL_ECP_DP_SECP224R1,
     POLARSSL_ECP_DP_SECP256R1, POLARSSL_ECP_DP_SECP384R1,
     POLARSSL_ECP_DP_SECP521R1}

RECURSIVE EllipticCurvesLoop(_, _, _)
EllipticCurvesLoop(s, p, list_size) ==
    IF list_size <= 0 THEN Return(s, OK)
    ELSE IF Msg(s, p) = 0 /\ Msg(s, p + 1) \in SupportedCurves
         THEN [s EXCEPT !.handshake.ec_curve = Msg(s, p + 1), !.ret = OK]
         ELSE EllipticCurvesLoop(s, p + 2, list_size - 2)

ssl_parse_supported_elliptic_curves(s, buf, len) ==
    LET list_size == U16(Msg(s, buf), Msg(s, buf + 1))
    IN  IF list_size + 2 # len \/ list_size % 2 # 0
        THEN Return(s, POLARSSL_ERR_SSL_BAD_HS_CLIENT_HELLO)
        ELSE EllipticCurvesLoop(s, buf + 2, list_size)

RECURSIVE PointFormatsLoop(_, _, _)
PointFormatsLoop(s, p, list_size) ==
    IF list_size = 0 THEN Return(s, OK)
    ELSE IF Msg(s, p) \in {POLARSSL_ECP_PF_UNCOMPRESSED,
                           POLARSSL_ECP_PF_COMPRESSED}
         THEN [s EXCEPT !.handshake.ec_point_format = Msg(s, p), !.ret = OK]
         ELSE PointFormatsLoop(s, p + 1, list_size - 1)

\* the list is walked from buf + 2, one byte past its first entry
ssl_parse_supported_point_formats(s, buf, len) ==
    LET list_size == Msg(s, buf)
    IN  IF list_size + 1 # len
        THEN Return(s, POLARSSL_ERR_SSL_BAD_HS_CLIENT_HELLO)
        ELSE PointFormatsLoop(s, buf + 2, list_size)

(***************************************************************************)
(* ClientHello: version negotiation and ciphersuite selection.             *)
(***************************************************************************)
\* a variant that takes the client's version as it comes
NegotiateMinorUncapped(client_minor, max_minor_ver) == client_minor

\* ssl->minor_ver = ( buf[5] <= ssl->max_minor_ver ) ? buf[5] : ssl->max_minor_ver
NegotiateMinor(client_minor, max_minor_ver) ==
    IF client_minor <= max_minor_ver THEN client_minor ELSE max_minor_ver

\* a variant that refuses a low version without telling the peer
NegotiateVersionSilent(s, e, client_major, client_minor) ==
    LET v == [s EXCEPT !.major_ver = SSL_MAJOR_VERSION_3,
                       !.minor_ver = NegotiateMinor(client_minor,
                                                    s.max_minor_ver)]
    IN  IF v.minor_ver < v.min_minor_ver
        THEN Return(v, POLARSSL_ERR_SSL_BAD_HS_PROTOCOL_VERSION)
        ELSE [v EXCEPT !.handshake.max_major_ver = client_major,
                       !.handshake.max_minor_ver = client_minor,
                       !.ret = OK]

\* the version block shared by both parsers: sets major_ver / minor_ver and
\* refuses a version below the configured minimum with a fatal alert whose
\* own status is dropped
NegotiateVersion(s, e, client_major, client_minor) ==
    LET v == [s EXCEPT !.major_ver = SSL_MAJOR_VERSION_3,
                       !.minor_ver = NegotiateMinor(client_minor,
                                                    s.max_minor_ver)]
    IN  IF v.minor_ver < v.min_minor_ver
        THEN Return(ssl_send_alert_message(v, e,
                        SSL_ALERT_MSG_PROTOCOL_VERSION),
                    POLARSSL_ERR_SSL_BAD_HS_PROTOCOL_VERSION)
        ELSE [v EXCEPT !.handshake.max_major_ver = client_major,
                       !.handshake.max_minor_ver = client_minor,
                       !.ret = OK]

\* some entry of the client's 2-byte list at in_msg + base equals suite id
Offered(s, base, ciph_len, id) ==
    \E k \in 0..((ciph_len \div 2) - 1) :
        /\ Msg(s, base + 2 * k) = Hi(id)
        /\ Msg(s, base + 2 * k + 1) = Lo(id)

\* a variant without the version test
SuiteAcceptableAnyVersion(s, info) ==
    ~(info.ec /\ s.handshake.ec_curve = 0)

\* a variant without the EC test
SuiteAcceptableAnyCurve(s, info) ==
    ~(info.min_minor_ver > s.minor_ver \/ info.max_minor_ver < s.minor_ver)

\* the two tests after which the inner loop leaves with goto have_ciphersuite
SuiteAcceptable(s, info) ==
    /\ ~(info.min_minor_ver > s.minor_ver \/ info.max_minor_ver < s.minor_ver)
    /\ ~(info.ec /\ s.handshake.ec_curve = 0)

RECURSIVE SearchCiphersuite(_, _, _, _, _)
\* the double loop over ssl->ciphersuite_list[minor_ver] and the client's
\* list, from server entry i on: <<status, chosen id>>
SearchCiphersuite(s, ciphersuites, i, base, ciph_len) ==
    IF i > Len(ciphersuites) THEN <<POLARSSL_ERR_SSL_NO_CIPHER_CHOSEN, 0>>
    ELSE IF ~Offered(s, base, ciph_len, ciphersuites[i])
         THEN SearchCiphersuite(s, ciphersuites, i + 1, base, ciph_len)
         ELSE LET info == ssl_ciphersuite_from_id(ciphersuites[i])
              IN  IF info = NULL
                  THEN <<POLARSSL_ERR_SSL_BAD_INPUT_DATA, 0>>
                  ELSE IF SuiteAcceptable(s, info)
                       THEN <<OK, ciphersuites[i]>>
                       ELSE SearchCiphersuite(s, ciphersuites, i + 1,
                                              base, ciph_len)

\* have_ciphersuite: record the choice, drop the input, advance
HaveCiphersuite(s, id) ==
    [s EXCEPT !.session_negotiate.ciphersuite = id,
              !.transform_negotiate.ciphersuite_info =
                  ssl_ciphersuite_from_id(id),
              !.in_left = 0,
              !.state = @ + 1,
              !.ret = OK]

\* the search and what follows it in ssl_parse_client_hello
SelectCiphersuite(s, e, base, ciph_len) ==
    LET r == SearchCiphersuite(s, s.ciphersuite_list[s.minor_ver], 1,
                               base, ciph_len)
    IN  IF r[1] = OK THEN HaveCiphersuite(s, r[2])
        ELSE IF r[1] = POLARSSL_ERR_SSL_BAD_INPUT_DATA THEN Return(s, r[1])
        ELSE FatalHandshakeFailure(s, e, POLARSSL_ERR_SSL_NO_CIPHER_CHOSEN)

\* the SCSV scan: some entry of the client's list is 0x00,0xFF
HasScsv(s, base, ciph_len) ==
    \E k \in 0..((ciph_len \div 2) - 1) :
        /\ Msg(s, base + 2 * k) = 0
        /\ Msg(s, base + 2 * k + 1) = SSL_EMPTY_RENEGOTIATION_INFO

\* a variant that lets a legacy renegotiation carry renegotiation_info
RenegotiationRefusedLax(s) ==
    \/ /\ s.secure_renegotiation = SSL_LEGACY_RENEGOTIATION
       /\ s.allow_legacy_renegotiation = SSL_LEGACY_BREAK_HANDSHAKE
    \/ /\ s.renegotiation = SSL_RENEGOTIATION
       /\ s.secure_renegotiation = SSL_SECURE_RENEGOTIATION
       /\ ~s.renegotiation_info_seen
    \/ /\ s.renegotiation = SSL_RENEGOTIATION
       /\ s.secure_renegotiation = SSL_LEGACY_RENEGOTIATION
       /\ s.allow_legacy_renegotiation = SSL_LEGACY_NO_RENEGOTIATION

\* "Renegotiation security checks": handshake_failure == 1
RenegotiationRefused(s) ==
    \/ /\ s.secure_renegotiation = SSL_LEGACY_RENEGOTIATION
       /\ s.allow_legacy_renegotiation = SSL_LEGACY_BREAK_HANDSHAKE
    \/ /\ s.renegotiation = SSL_RENEGOTIATION
       /\ s.secure_renegotiation = SSL_SECURE_RENEGOTIATION
       /\ ~s.renegotiation_info_seen
    \/ /\ s.renegotiation = SSL_RENEGOTIATION
       /\ s.secure_renegotiation = SSL_LEGACY_RENEGOTIATION
       /\ s.allow_legacy_renegotiation = SSL_LEGACY_NO_RENEGOTIATION
    \/ /\ s.renegotiation = SSL_RENEGOTIATION
       /\ s.secure_renegotiation = SSL_LEGACY_RENEGOTIATION
       /\ s.renegotiation_info_seen

\* one case of the switch( ext_id )
DispatchExtension(s, e, ext_id, buf, ext_size) ==
    CASE ext_id = TLS_EXT_SERVERNAME ->
           IF ~s.f_sni THEN Return(s, OK)
           ELSE ssl_parse_servername_ext(s, e, buf, ext_size)
      [] ext_id = TLS_EXT_RENEGOTIATION_INFO ->
           ssl_parse_renegotiation_info(
               [s EXCEPT !.renegotiation_info_seen = TRUE], e, buf, ext_size)
      [] ext_id = TLS_EXT_SIG_ALG ->
           IF s.renegotiation = SSL_RENEGOTIATION THEN Return(s, OK)
           ELSE ssl_parse_signature_algorithms_ext(s, buf, ext_size)
      [] ext_id = TLS_EXT_SUPPORTED_ELLIPTIC_CURVES ->
           ssl_parse_supported_elliptic_curves(s, buf, ext_size)
      [] ext_id = TLS_EXT_SUPPORTED_POINT_FORMATS ->
           ssl_parse_supported_point_formats(s, buf, ext_size)
      [] OTHER -> Return(s, OK)

RECURSIVE ParseExtensions(_, _, _, _)
\* while( ext_len ) over the extensions block at in_msg + ext
ParseExtensions(s, e, ext, ext_len) ==
    IF ext_len = 0 THEN Return(s, OK)
    ELSE LET ext_id == U16(Msg(s, ext), Msg(s, ext + 1))
             ext_size == U16(Msg(s, ext + 2), Msg(s, ext + 3))
         IN  IF ext_size + 4 > ext_len
             THEN Return(s, POLARSSL_ERR_SSL_BAD_HS_CLIENT_HELLO)
             ELSE LET r == DispatchExtension(s, e, ext_id, ext + 4, ext_size)
                      left == ext_len - (4 + ext_size)
                  IN  IF r.ret # OK THEN r
                      ELSE IF left > 0 /\ left < 4
                           THEN Return(r, POLARSSL_ERR_SSL_BAD_HS_CLIENT_HELLO)
                           ELSE ParseExtensions(r, e, ext + 4 + ext_size, left)

(***************************************************************************)
(* ssl_parse_client_hello_v2: the SSLv2-compatible ClientHello.            *)
(***************************************************************************)
\* a variant that matches the last two bytes of an entry with the whole id
OfferedV2TwoBytes(s, ciph_len, id) ==
    \E k \in 0..((ciph_len \div 3) - 1) :
        /\ Msg(s, 6 + 3 * k) = 0
        /\ Msg(s, 6 + 3 * k + 1) = Hi(id)
        /\ Msg(s, 6 + 3 * k + 2) = Lo(id)

\* some 3-byte entry of the client's list at in_msg + 6 is (0, 0, low byte
\* of id), and id itself has a zero high byte
OfferedV2(s, ciph_len, id) ==
    \E k \in 0..((ciph_len \div 3) - 1) :
        /\ Msg(s, 6 + 3 * k) = 0
        /\ Msg(s, 6 + 3 * k + 1) = 0
        /\ Hi(id) = 0
        /\ Msg(s, 6 + 3 * k + 2) = Lo(id)

RECURSIVE SearchCiphersuiteV2(_, _, _, _)
SearchCiphersuiteV2(s, ciphersuites, i, ciph_len) ==
    IF i > Len(ciphersuites) THEN <<POLARSSL_ERR_SSL_NO_CIPHER_CHOSEN, 0>>
    ELSE IF ~OfferedV2(s, ciph_len, ciphersuites[i])
         THEN SearchCiphersuiteV2(s, ciphersuites, i + 1, ciph_len)
         ELSE LET info == ssl_ciphersuite_from_id(ciphersuites[i])
              IN  IF info = NULL
                  THEN <<POLARSSL_ERR_SSL_BAD_INPUT_DATA, 0>>
                  ELSE IF ~(info.min_minor_ver > s.minor_ver
                            \/ info.max_minor_ver < s.minor_ver)
                       THEN <<OK, ciphersuites[i]>>
                       ELSE SearchCiphersuiteV2(s, ciphersuites, i + 1,
                                                ciph_len)

\* the (0, 0, 0xFF) scan of the 3-byte list
HasScsvV2(s, ciph_len) ==
    \E k \in 0..((ciph_len \div 3) - 1) :
        /\ Msg(s, 6 + 3 * k) = 0
        /\ Msg(s, 6 + 3 * k + 1) = 0
        /\ Msg(s, 6 + 3 * k + 2) = SSL_EMPTY_RENEGOTIATION_INFO

\* from the ciphersuite search to the end of ssl_parse_client_hello_v2
SelectCiphersuiteV2(s, e, ciph_len) ==
    LET r == SearchCiphersuiteV2(s, s.ciphersuite_list[s.minor_ver], 1,
                                 ciph_len)
    IN  IF r[1] # OK THEN Return(s, r[1])
        ELSE LET c == [s EXCEPT !.session_negotiate.ciphersuite = r[2],
                                !.transform_negotiate.ciphersuite_info =
                                    ssl_ciphersuite_from_id(r[2])]
             IN  IF /\ c.secure_renegotiation = SSL_LEGACY_RENEGOTIATION
                    /\ c.allow_legacy_renegotiation = SSL_LEGACY_BREAK_HANDSHAKE
                 THEN FatalHandshakeFailure(c, e,
                          POLARSSL_ERR_SSL_BAD_HS_CLIENT_HELLO)
                 ELSE [c EXCEPT !.in_left = 0, !.state = @ + 1, !.ret = OK]

\* the record contents once fetched: lengths, session id, challenge, SCSV
ParseClientHelloV2Body(s, e) ==
    LET n == s.in_left - 5
        ciph_len == U16(Msg(s, 0), Msg(s, 1))
        sess_len == U16(Msg(s, 2), Msg(s, 3))
        chal_len == U16(Msg(s, 4), Msg(s, 5))
    IN  IF ciph_len < 3 \/ ciph_len % 3 # 0
        THEN Return(s, POLARSSL_ERR_SSL_BAD_HS_CLIENT_HELLO)
        ELSE IF sess_len > 32
        THEN Return(s, POLARSSL_ERR_SSL_BAD_HS_CLIENT_HELLO)
        ELSE IF chal_len < 8 \/ chal_len > 32
        THEN Return(s, POLARSSL_ERR_SSL_BAD_HS_CLIENT_HELLO)
        ELSE IF n # 6 + ciph_len + sess_len + chal_len
        THEN Return(s, POLARSSL_ERR_SSL_BAD_HS_CLIENT_HELLO)
        ELSE LET c == [s EXCEPT
                        !.session_negotiate.length = sess_len,
                        !.session_negotiate.id =
                            [i \in 1..32 |->
                                IF i <= sess_len
                                THEN Msg(s, 6 + ciph_len + i - 1) ELSE 0],
                        !.handshake.randbytes =
                            [i \in 1..64 |->
                                IF i > 32 - chal_len /\ i <= 32
                                THEN Msg(s, 6 + ciph_len + sess_len
                                              + i - (32 - chal_len) - 1)
                                ELSE 0]]
             IN  IF HasScsvV2(c, ciph_len)
                 THEN IF c.renegotiation = SSL_RENEGOTIATION
                      THEN FatalHandshakeFailure(c, e,
                               POLARSSL_ERR_SSL_BAD_HS_CLIENT_HELLO)
                      ELSE SelectCiphersuiteV2(
                               [c EXCEPT !.secure_renegotiation =
                                             SSL_SECURE_RENEGOTIATION],
                               e, ciph_len)
                 ELSE SelectCiphersuiteV2(c, e, ciph_len)

\* a variant that takes the SSLv2-compatible shape in a renegotiation too
ssl_parse_client_hello_v2_renegotiating(s, e, wire) ==
    IF Hdr(s, 2) # SSL_HS_CLIENT_HELLO \/ Hdr(s, 3) # SSL_MAJOR_VERSION_3
    THEN Return(s, POLARSSL_ERR_SSL_BAD_HS_CLIENT_HELLO)
    ELSE LET n == U16(Hdr(s, 0), Hdr(s, 1)) % 32768
         IN  IF n < 17 \/ n > 512
             THEN Return(s, POLARSSL_ERR_SSL_BAD_HS_CLIENT_HELLO)
             ELSE LET v == NegotiateVersion(s, e, Hdr(s, 3), Hdr(s, 4))
                  IN  IF v.ret # OK THEN v
                      ELSE LET f == ssl_fetch_input(v, wire, 2 + n, e.fetch_msg)
                           IN  IF f.ret # OK THEN f
                               ELSE ParseClientHelloV2Body(
                                        update_checksum(f, "ClientHello"), e)

ssl_parse_client_hello_v2(s, e, wire) ==
    IF s.renegotiation # SSL_INITIAL_HANDSHAKE
    THEN FatalHandshakeFailure(s, e, POLARSSL_ERR_SSL_BAD_HS_CLIENT_HELLO)
    ELSE IF Hdr(s, 2) # SSL_HS_CLIENT_HELLO \/ Hdr(s, 3) # SSL_MAJOR_VERSION_3
    THEN Return(s, POLARSSL_ERR_SSL_BAD_HS_CLIENT_HELLO)
    ELSE LET n == U16(Hdr(s, 0), Hdr(s, 1)) % 32768
         IN  IF n < 17 \/ n > 512
             THEN Return(s, POLARSSL_ERR_SSL_BAD_HS_CLIENT_HELLO)
             ELSE LET v == NegotiateVersion(s, e, Hdr(s, 3), Hdr(s, 4))
                  IN  IF v.ret # OK THEN v
                      ELSE LET f == ssl_fetch_input(v, wire, 2 + n, e.fetch_msg)
                           IN  IF f.ret # OK THEN f
                               ELSE ParseClientHelloV2Body(
                                        update_checksum(f, "ClientHello"), e)

(***************************************************************************)
(* ssl_parse_client_hello: the modern ClientHello.                         *)
(***************************************************************************)
\* from the extension walk to the end of ssl_parse_client_hello
ParseClientHelloTail(s, e, sess_len, ciph_len, comp_len, ext_len) ==
    LET x == ParseExtensions(s, e, 44 + sess_len + ciph_len + comp_len,
                             ext_len)
    IN  IF x.ret # OK THEN x
        ELSE IF RenegotiationRefused(x)
             THEN FatalHandshakeFailure(x, e,
                      POLARSSL_ERR_SSL_BAD_HS_CLIENT_HELLO)
             ELSE SelectCiphersuite(x, e, 41 + sess_len, ciph_len)

\* a variant whose SCSV scan marks the session secure before it looks at
\* the kind of handshake
ParseClientHelloScsvEager(s, e, sess_len, ciph_len, comp_len, ext_len) ==
    LET c == [s EXCEPT !.session_negotiate.compression =
                 IF s.zlib_support
                    /\ \E i \in 0..(comp_len - 1) :
                           Msg(s, 42 + sess_len + ciph_len + i)
                               = SSL_COMPRESS_DEFLATE
                 THEN SSL_COMPRESS_DEFLATE ELSE SSL_COMPRESS_NULL]
        d == [c EXCEPT !.secure_renegotiation = SSL_SECURE_RENEGOTIATION]
    IN  IF HasScsv(c, 41 + sess_len, ciph_len)
        THEN IF c.renegotiation = SSL_RENEGOTIATION
             THEN FatalHandshakeFailure(d, e,
                      POLARSSL_ERR_SSL_BAD_HS_CLIENT_HELLO)
             ELSE ParseClientHelloTail(d, e, sess_len, ciph_len, comp_len,
                                       ext_len)
        ELSE ParseClientHelloTail(c, e, sess_len, ciph_len, comp_len, ext_len)

\* compression choice and the SCSV scan
ParseClientHelloScsv(s, e, sess_len, ciph_len, comp_len, ext_len) ==
    LET c == [s EXCEPT !.session_negotiate.compression =
                 IF s.zlib_support
                    /\ \E i \in 0..(comp_len - 1) :
                           Msg(s, 42 + sess_len + ciph_len + i)
                               = SSL_COMPRESS_DEFLATE
                 THEN SSL_COMPRESS_DEFLATE ELSE SSL_COMPRESS_NULL]
    IN  IF HasScsv(c, 41 + sess_len, ciph_len)
        THEN IF c.renegotiation = SSL_RENEGOTIATION
             THEN FatalHandshakeFailure(c, e,
                      POLARSSL_ERR_SSL_BAD_HS_CLIENT_HELLO)
             ELSE ParseClientHelloTail(
                      [c EXCEPT !.secure_renegotiation =
                                    SSL_SECURE_RENEGOTIATION],
                      e, sess_len, ciph_len, comp_len, ext_len)
        ELSE ParseClientHelloTail(c, e, sess_len, ciph_len, comp_len, ext_len)

\* the length checks of the handshake message of n bytes
ParseClientHelloLengths(s, e, n) ==
    IF Msg(s, 1) # 0 \/ n # 4 + U16(Msg(s, 2), Msg(s, 3))
    THEN Return(s, POLARSSL_ERR_SSL_BAD_HS_CLIENT_HELLO)
    ELSE LET sess_len == Msg(s, 38)
         IN  IF sess_len > 32
             THEN Return(s, POLARSSL_ERR_SSL_BAD_HS_CLIENT_HELLO)
             ELSE
    LET c == [s EXCEPT !.session_negotiate.length = sess_len,
                       !.session_negotiate.id =
                           [i \in 1..32 |->
                               IF i <= sess_len THEN Msg(s, 38 + i) ELSE 0]]
        ciph_len == U16(Msg(s, 39 + sess_len), Msg(s, 40 + sess_len))
    IN  IF ciph_len < 2 \/ ciph_len > 256 \/ ciph_len % 2 # 0
        THEN Return(c, POLARSSL_ERR_SSL_BAD_HS_CLIENT_HELLO)
        ELSE
    LET comp_len == Msg(s, 41 + sess_len + ciph_len)
    IN  IF comp_len < 1 \/ comp_len > 16
        THEN Return(c, POLARSSL_ERR_SSL_BAD_HS_CLIENT_HELLO)
        ELSE
    LET has_ext == n > 42 + sess_len + ciph_len + comp_len
        ext_len == IF has_ext
                   THEN U16(Msg(s, 42 + sess_len + ciph_len + comp_len),
                            Msg(s, 43 + sess_len + ciph_len + comp_len))
                   ELSE 0
    IN  IF has_ext /\ (\/ (ext_len > 0 /\ ext_len < 4)
                       \/ n # 44 + sess_len + ciph_len + comp_len + ext_len)
        THEN Return(c, POLARSSL_ERR_SSL_BAD_HS_CLIENT_HELLO)
        ELSE ParseClientHelloScsv(c, e, sess_len, ciph_len, comp_len, ext_len)

\* the handshake message once it is in in_msg: transcript, type, version,
\* client random, then the length checks
ParseClientHelloBody(s, e) ==
    LET n == IF s.renegotiation = SSL_INITIAL_HANDSHAKE
             THEN s.in_left - 5 ELSE s.in_msglen
        c == update_checksum(s, "ClientHello")
    IN  IF Msg(c, 0) # SSL_HS_CLIENT_HELLO \/ Msg(c, 4) # SSL_MAJOR_VERSION_3
        THEN Return(c, POLARSSL_ERR_SSL_BAD_HS_CLIENT_HELLO)
        ELSE LET v == NegotiateVersion(c, e, Msg(c, 4), Msg(c, 5))
             IN  IF v.ret # OK THEN v
                 ELSE ParseClientHelloLengths(
                          [v EXCEPT !.handshake.randbytes =
                               [i \in 1..64 |->
                                   IF i <= 32 THEN Msg(v, 5 + i) ELSE @[i]]],
                          e, n)

ssl_parse_client_hello(s0, e, wire) ==
    LET s == [s0 EXCEPT !.renegotiation_info_seen = FALSE]
        h == IF s.renegotiation = SSL_INITIAL_HANDSHAKE
             THEN ssl_fetch_input(s, wire, 5, e.fetch_hdr)
             ELSE Return(s, OK)
    IN  IF h.ret # OK THEN h
        ELSE IF s.sslv2_client_hello /\ Hdr(h, 0) >= 128
        THEN ssl_parse_client_hello_v2(h, e, wire)
        ELSE IF Hdr(h, 0) # SSL_MSG_HANDSHAKE \/ Hdr(h, 1) # SSL_MAJOR_VERSION_3
        THEN Return(h, POLARSSL_ERR_SSL_BAD_HS_CLIENT_HELLO)
        ELSE LET n == U16(Hdr(h, 3), Hdr(h, 4))
             IN  IF n < 45 \/ n > 512
                 THEN Return(h, POLARSSL_ERR_SSL_BAD_HS_CLIENT_HELLO)
                 ELSE LET f == IF h.renegotiation = SSL_INITIAL_HANDSHAKE
                               THEN ssl_fetch_input(h, wire, 5 + n, e.fetch_msg)
                               ELSE Return(h, OK)
                      IN  IF f.ret # OK THEN f
                          ELSE ParseClientHelloBody(f, e)

(***************************************************************************)
(* More collaborators of ssl_tls.c and of the crypto library.  What they   *)
(* answer during one driver call is the record e.                          *)
(***************************************************************************)
\* ssl_write_record( ssl ) for the handshake message m built in out_msg: the
\* message is folded into the transcript and queued whatever the flush says
ssl_write_record(s, e, m) ==
    [s EXCEPT !.sent = Append(@, m),
              !.transcript = Append(@, m.name),
              !.ret = e.write]

\* ssl_read_record( ssl ): the next record of the peer, e.rec, into in_msg
ssl_read_record(s, e) ==
    IF e.read # OK THEN Return(s, e.read)
    ELSE IF e.rec.msgtype # SSL_MSG_HANDSHAKE
    THEN [s EXCEPT !.in_msgtype = e.rec.msgtype,
                   !.in_msg = e.rec.msg,
                   !.in_msglen = Len(e.rec.msg),
                   !.ret = OK]
    ELSE [s EXCEPT !.in_msgtype = e.rec.msgtype,
                   !.in_msg = e.rec.msg,
                   !.in_msglen = Len(e.rec.msg),
                   !.in_hslen = 4 + U16(e.rec.msg[3], e.rec.msg[4]),
                   !.transcript = Append(@, e.rec.name),
                   !.ret = OK]

\* ssl_derive_keys( ssl )
ssl_derive_keys(s, e) ==
    [s EXCEPT !.derive_calls = @ + 1, !.ret = e.derive]

(***************************************************************************)
(* ssl_write_server_hello                                                  *)
(***************************************************************************)
\* a variant that puts the server's verify data in front of the client's
ServerHelloExtensionsOwnFirst(s) ==
    IF s.secure_renegotiation = SSL_SECURE_RENEGOTIATION
    THEN LET ext_len == 5 + s.verify_data_len * 2
         IN  <<Hi(ext_len), Lo(ext_len),
               Hi(TLS_EXT_RENEGOTIATION_INFO), Lo(TLS_EXT_RENEGOTIATION_INFO),
               0, Lo(s.verify_data_len * 2 + 1), Lo(s.verify_data_len * 2)>>
             \o s.own_verify_data \o s.peer_verify_data
    ELSE <<>>

\* the renegotiation_info extension block appended when secure_renegotiation
\* is SECURE: 2-byte block length, id, 2-byte size, 1-byte length, data
ServerHelloExtensions(s) ==
    IF s.secure_renegotiation = SSL_SECURE_RENEGOTIATION
    THEN LET ext_len == 5 + s.verify_data_len * 2
         IN  <<Hi(ext_len), Lo(ext_len),
               Hi(TLS_EXT_RENEGOTIATION_INFO), Lo(TLS_EXT_RENEGOTIATION_INFO),
               0, Lo(s.verify_data_len * 2 + 1), Lo(s.verify_data_len * 2)>>
             \o s.peer_verify_data \o s.own_verify_data
    ELSE <<>>

\* from the memcpy of the session id to the end of ssl_write_server_hello
ServerHelloEmit(s, e) ==
    ssl_write_record(s, e,
        [name |-> "ServerHello",
         data |-> <<s.major_ver, s.minor_ver, s.session_negotiate.length,
                    s.session_negotiate.id, s.session_negotiate.ciphersuite,
                    s.session_negotiate.compression,
                    ServerHelloExtensions(s)>>])

\* "Not found, create a new session id"
ServerHelloNewSession(s, e) ==
    LET c == [s EXCEPT !.handshake.resume = FALSE, !.state = @ + 1]
    IN  IF e.rng2 # OK THEN Return(c, e.rng2)
        ELSE ServerHelloEmit([c EXCEPT !.session_negotiate.id = Fill(32, 73)],
                             e)

\* a variant whose resumption shortcut goes back to SSL_CLIENT_HELLO
ServerHelloResumeBackwards(s, e) ==
    LET c == [s EXCEPT !.handshake.resume = TRUE,
                       !.state = SSL_CLIENT_HELLO]
        d == ssl_derive_keys(c, e)
    IN  IF d.ret # OK THEN d ELSE ServerHelloEmit(d, e)

\* "Found a matching session, resuming it"
ServerHelloResume(s, e) ==
    LET c == [s EXCEPT !.handshake.resume = TRUE,
                       !.state = SSL_SERVER_CHANGE_CIPHER_SPEC]
        d == ssl_derive_keys(c, e)
    IN  IF d.ret # OK THEN d ELSE ServerHelloEmit(d, e)

\* a variant that consults the session cache in a renegotiation too
ssl_write_server_hello_any_handshake(s, e) ==
    IF e.rng # OK THEN Return(s, e.rng)
    ELSE LET a == [s EXCEPT !.handshake.randbytes =
                                [i \in 1..64 |-> IF i > 32 THEN 83 ELSE @[i]],
                            !.session_negotiate.length = 32]
         IN  IF ~a.f_get_cache
             THEN ServerHelloNewSession(a, e)
             ELSE LET q == [a EXCEPT !.cache_lookup =
                                [length |-> a.session_negotiate.length,
                                 id |-> a.session_negotiate.id]]
                  IN  IF e.cache # OK THEN ServerHelloNewSession(q, e)
                      ELSE ServerHelloResume(q, e)

ssl_write_server_hello(s, e) ==
    IF e.rng # OK THEN Return(s, e.rng)
    ELSE LET a == [s EXCEPT !.handshake.randbytes =
                                [i \in 1..64 |-> IF i > 32 THEN 83 ELSE @[i]],
                            !.session_negotiate.length = 32]
         IN  IF a.renegotiation # SSL_INITIAL_HANDSHAKE \/ ~a.f_get_cache
             THEN ServerHelloNewSession(a, e)
             ELSE LET q == [a EXCEPT !.cache_lookup =
                                [length |-> a.session_negotiate.length,
                                 id |-> a.session_negotiate.id]]
                  IN  IF e.cache # OK THEN ServerHelloNewSession(q, e)
                      ELSE ServerHelloResume(q, e)

(***************************************************************************)
(* ssl_write_certificate_request                                           *)
(***************************************************************************)
RECURSIVE DnListLoop(_, _, _)
\* the while( crt != NULL ) loop: p is p - buf, total is total_dn_size;
\* the result is <<p - buf, total_dn_size>> after the loop
DnListLoop(crt, p, total) ==
    IF crt = <<>> \/ p > 4096 THEN <<p, total>>
    ELSE DnListLoop(Tail(crt), p + 2 + Head(crt), total + 2 + Head(crt))

\* a variant that asks for SHA256 whatever the MAC of the suite
ssl_write_certificate_request_sha256(s, e) ==
    LET c == [s EXCEPT !.state = @ + 1, !.ret = OK]
        info == s.transform_negotiate.ciphersuite_info
    IN  IF \/ info.key_exchange = POLARSSL_KEY_EXCHANGE_PSK
           \/ info.key_exchange = POLARSSL_KEY_EXCHANGE_DHE_PSK
           \/ s.authmode = SSL_VERIFY_NONE
        THEN c
        ELSE LET tls12 == s.minor_ver = SSL_MINOR_VERSION_3
                 d == IF tls12
                      THEN [c EXCEPT !.handshake.verify_sig_alg =
                                         SSL_HASH_SHA256]
                      ELSE c
                 n == IF tls12 THEN 4 ELSE 0
                 r == DnListLoop(s.ca_chain, 4 + 2 + n + 2, 0)
             IN  ssl_write_record(d, e,
                     [name |-> "CertificateRequest",
                      data |-> <<IF tls12 THEN <<SSL_HASH_SHA256, SSL_SIG_RSA>>
                                 ELSE <<>>,
                                 r[1], Hi(r[2]), Lo(r[2])>>])

ssl_write_certificate_request(s, e) ==
    LET c == [s EXCEPT !.state = @ + 1, !.ret = OK]
        info == s.transform_negotiate.ciphersuite_info
    IN  IF \/ info.key_exchange = POLARSSL_KEY_EXCHANGE_PSK
           \/ info.key_exchange = POLARSSL_KEY_EXCHANGE_DHE_PSK
           \/ s.authmode = SSL_VERIFY_NONE
        THEN c
        ELSE LET tls12 == s.minor_ver = SSL_MINOR_VERSION_3
                 alg == IF info.mac = POLARSSL_MD_SHA384
                        THEN SSL_HASH_SHA384 ELSE SSL_HASH_SHA256
                 d == IF tls12 THEN [c EXCEPT !.handshake.verify_sig_alg = alg]
                      ELSE c
                 n == IF tls12 THEN 4 ELSE 0
                 r == DnListLoop(s.ca_chain, 4 + 2 + n + 2, 0)
             IN  ssl_write_record(d, e,
                     [name |-> "CertificateRequest",
                      data |-> <<IF tls12 THEN <<alg, SSL_SIG_RSA>> ELSE <<>>,
                                 r[1], Hi(r[2]), Lo(r[2])>>])

(***************************************************************************)
(* ssl_write_server_key_exchange                                           *)
(***************************************************************************)
\* the switch( ssl->handshake->sig_alg ) of the TLS 1.2 branch: TRUE when a
\* case matches, FALSE for the default
SigAlgHasDigest(sig_alg) ==
    sig_alg \in {SSL_HASH_MD5, SSL_HASH_SHA1, SSL_HASH_SHA224,
                 SSL_HASH_SHA256, SSL_HASH_SHA384, SSL_HASH_SHA512}

\* from ssl->out_msglen = 4 + n to the end
ServerKeyExchangeEmit(s, e, params, sig) ==
    ssl_write_record([s EXCEPT !.state = @ + 1], e,
        [name |-> "ServerKeyExchange", data |-> <<params, sig>>])

\* the block for DHE_RSA and ECDHE_RSA: hash of the parameters, signature
ServerKeyExchangeSign(s, e, params) ==
    IF s.minor_ver # SSL_MINOR_VERSION_3
    THEN IF e.rsa_sign # OK THEN Return(s, e.rsa_sign)
         ELSE ServerKeyExchangeEmit(s, e, params, <<"md5sha1">>)
    ELSE IF ~SigAlgHasDigest(s.handshake.sig_alg)
         THEN Return(s, ERR_MINUS_ONE)
         ELSE IF e.md_init_ctx # OK THEN Return(s, e.md_init_ctx)
         ELSE LET c == [s EXCEPT !.md_ctx_live = @ + 1]
              IN  IF e.rsa_sign # OK THEN Return(c, e.rsa_sign)
                  ELSE ServerKeyExchangeEmit(c, e, params,
                           <<s.handshake.sig_alg, SSL_SIG_RSA>>)

ssl_write_server_key_exchange(s, e) ==
    LET kx == s.transform_negotiate.ciphersuite_info.key_exchange
    IN  IF /\ kx # POLARSSL_KEY_EXCHANGE_DHE_RSA
           /\ kx # POLARSSL_KEY_EXCHANGE_ECDHE_RSA
           /\ kx # POLARSSL_KEY_EXCHANGE_DHE_PSK
        THEN [s EXCEPT !.state = @ + 1, !.ret = OK]
        ELSE IF ~s.rsa_key
        THEN Return(s, POLARSSL_ERR_SSL_PRIVATE_KEY_REQUIRED)
        ELSE IF kx = POLARSSL_KEY_EXCHANGE_ECDHE_RSA
        THEN IF e.ecp_use_known_dp # OK THEN Return(s, e.ecp_use_known_dp)
             ELSE IF e.ecdh_make_params # OK
             THEN Return(s, e.ecdh_make_params)
             ELSE ServerKeyExchangeSign(s, e, <<"ecdh", s.handshake.ec_curve>>)
        ELSE IF e.mpi_copy # OK THEN Return(s, e.mpi_copy)
        ELSE IF e.dhm_make_params # OK THEN Return(s, e.dhm_make_params)
        ELSE IF kx = POLARSSL_KEY_EXCHANGE_DHE_RSA
        THEN ServerKeyExchangeSign(s, e, <<"dhm">>)
        ELSE ServerKeyExchangeEmit(s, e, <<0, 0, "dhm">>, <<>>)

(***************************************************************************)
(* ssl_write_server_hello_done                                             *)
(***************************************************************************)
\* a variant that leaves out a state: it steps over SSL_CLIENT_CERTIFICATE
ssl_write_server_hello_done_skipping(s, e) ==
    ssl_write_record([s EXCEPT !.state = @ + 2], e,
                     [name |-> "ServerHelloDone", data |-> <<>>])

\* a variant that increments state only when the write has succeeded
ssl_write_server_hello_done_late(s, e) ==
    LET w == ssl_write_record(s, e, [name |-> "ServerHelloDone", data |-> <<>>])
    IN  IF w.ret # OK THEN w ELSE [w EXCEPT !.state = @ + 1]

ssl_write_server_hello_done(s, e) ==
    ssl_write_record([s EXCEPT !.state = @ + 1], e,
                     [name |-> "ServerHelloDone", data |-> <<>>])

(***************************************************************************)
(* ssl_parse_client_key_exchange and its parts.  premaster is kept as the  *)
(* bytes the buffer held when the handshake started, overwritten by the    *)
(* bytes written so far; the bytes behind them are zero.                   *)
(***************************************************************************)
PremasterAt(s, i) ==
    IF i < Len(s.handshake.premaster) THEN s.handshake.premaster[i + 1] ELSE 0

\* the premaster buffer after data was stored at offset at
PremasterStore(s, at, data) ==
    LET n == IF at + Len(data) > Len(s.handshake.premaster)
             THEN at + Len(data) ELSE Len(s.handshake.premaster)
    IN  [i \in 1..n |-> IF i > at /\ i <= at + Len(data)
                        THEN data[i - at] ELSE PremasterAt(s, i - 1)]

\* mpi_size( &ssl->handshake->ecdh_ctx.grp.P ) for the curve in use
EcpSize(curve) ==
    CASE curve = POLARSSL_ECP_DP_SECP192R1 -> 24
      [] curve = POLARSSL_ECP_DP_SECP224R1 -> 28
      [] curve = POLARSSL_ECP_DP_SECP256R1 -> 32
      [] curve = POLARSSL_ECP_DP_SECP384R1 -> 48
      [] curve = POLARSSL_ECP_DP_SECP521R1 -> 66
      [] OTHER -> 0

\* ssl_parse_client_dh_public( ssl, &p, end ): p is the offset in in_msg;
\* the result is <<status, p>>
ssl_parse_client_dh_public(s, e, p) ==
    IF p + 2 > s.in_msglen
    THEN <<POLARSSL_ERR_SSL_BAD_HS_CLIENT_KEY_EXCHANGE, p>>
    ELSE LET n == U16(Msg(s, p), Msg(s, p + 1))
         IN  IF n < 1 \/ n > s.dhm_len \/ p + 2 + n > s.in_msglen
             THEN <<POLARSSL_ERR_SSL_BAD_HS_CLIENT_KEY_EXCHANGE, p + 2>>
             ELSE IF e.dhm_read_public # OK
             THEN <<POLARSSL_ERR_SSL_BAD_HS_CLIENT_KEY_EXCHANGE_RP, p + 2>>
             ELSE <<OK, p + 2>>

\* ssl_parse_client_ecdh_public( ssl ): the status
ssl_parse_client_ecdh_public(s, e) ==
    LET n == Msg(s, 3)
    IN  IF \/ n < 1
           \/ n > EcpSize(s.handshake.ec_curve) * 2 + 2
           \/ n + 4 # s.in_hslen
        THEN POLARSSL_ERR_SSL_BAD_HS_CLIENT_KEY_EXCHANGE
        ELSE IF e.ecdh_read_public # OK
        THEN POLARSSL_ERR_SSL_BAD_HS_CLIENT_KEY_EXCHANGE_RP
        ELSE OK

\* the block after rsa_decrypt: on any failure pmslen is 48 again and the
\* premaster is drawn from the RNG
\* a variant that ends the step when the decrypted premaster is not valid
EncryptedPmsCheckAborting(s, e, ret) ==
    IF \/ ret # OK
       \/ s.handshake.pmslen # PremasterLen
       \/ PremasterAt(s, 0) # s.handshake.max_major_ver
       \/ PremasterAt(s, 1) # s.handshake.max_minor_ver
    THEN Return(s, POLARSSL_ERR_SSL_BAD_HS_CLIENT_KEY_EXCHANGE)
    ELSE Return(s, OK)

EncryptedPmsCheck(s, e, ret) ==
    IF \/ ret # OK
       \/ s.handshake.pmslen # PremasterLen
       \/ PremasterAt(s, 0) # s.handshake.max_major_ver
       \/ PremasterAt(s, 1) # s.handshake.max_minor_ver
    THEN IF e.rng # OK
         THEN Return([s EXCEPT !.handshake.pmslen = PremasterLen], e.rng)
         ELSE [s EXCEPT !.handshake.pmslen = PremasterLen,
                        !.handshake.premaster =
                            PremasterStore(s, 0, Fill(PremasterLen, 82)),
                        !.ret = OK]
    ELSE Return(s, OK)

ssl_parse_encrypted_pms_secret(s, e) ==
    IF ~s.rsa_key THEN Return(s, POLARSSL_ERR_SSL_PRIVATE_KEY_REQUIRED)
    ELSE LET n == s.rsa_key_len
             i == IF s.minor_ver # SSL_MINOR_VERSION_0 THEN 6 ELSE 4
             c == [s EXCEPT !.handshake.pmslen = PremasterLen]
         IN  IF /\ s.minor_ver # SSL_MINOR_VERSION_0
                /\ (Msg(s, 4) # Hi(n) \/ Msg(s, 5) # Lo(n))
             THEN Return(c, POLARSSL_ERR_SSL_BAD_HS_CLIENT_KEY_EXCHANGE)
             ELSE IF s.in_hslen # i + n
             THEN Return(c, POLARSSL_ERR_SSL_BAD_HS_CLIENT_KEY_EXCHANGE)
             ELSE IF e.rsa_decrypt.ret # OK
             THEN EncryptedPmsCheck(c, e, e.rsa_decrypt.ret)
             ELSE EncryptedPmsCheck(
                      [c EXCEPT !.handshake.pmslen = Len(e.rsa_decrypt.out),
                                !.handshake.premaster =
                                    PremasterStore(c, 0, e.rsa_decrypt.out)],
                      e, OK)

\* ssl_parse_client_psk_identity( ssl, &p, end ): <<status, p>>
ssl_parse_client_psk_identity(s, p) ==
    IF \/ s.psk = <<>> \/ s.psk_identity = <<>>
    THEN <<POLARSSL_ERR_SSL_PRIVATE_KEY_REQUIRED, p>>
    ELSE IF p + 2 > s.in_msglen
    THEN <<POLARSSL_ERR_SSL_BAD_HS_CLIENT_KEY_EXCHANGE, p>>
    ELSE LET n == U16(Msg(s, p), Msg(s, p + 1))
         IN  IF n < 1 \/ n > 65535 \/ p + 2 + n > s.in_msglen
             THEN <<POLARSSL_ERR_SSL_BAD_HS_CLIENT_KEY_EXCHANGE, p + 2>>
             ELSE IF \/ n # Len(s.psk_identity)
                     \/ \E k \in 1..n : s.psk_identity[k] # Msg(s, p + 1 + k)
             THEN <<POLARSSL_ERR_SSL_BAD_HS_CLIENT_KEY_EXCHANGE, p + 2>>
             ELSE <<OK, p + 2 + n>>

\* the end of the handler without the call of ssl_derive_keys
ClientKeyExchangeFinishNoDerive(s, e) ==
    [s EXCEPT !.state = @ + 1, !.ret = OK]

\* ssl_derive_keys and the increment of state that end the handler
ClientKeyExchangeFinish(s, e) ==
    LET d == ssl_derive_keys(s, e)
    IN  IF d.ret # OK THEN d ELSE [d EXCEPT !.state = @ + 1, !.ret = OK]

ClientKeyExchangeDheRsa(s, e) ==
    LET r == ssl_parse_client_dh_public(s, e, 4)
        c == [s EXCEPT !.handshake.pmslen = s.dhm_len]
    IN  IF r[1] # OK THEN Return(s, r[1])
        ELSE IF e.dhm_calc_secret.ret # OK
        THEN Return(c, POLARSSL_ERR_SSL_BAD_HS_CLIENT_KEY_EXCHANGE_CS)
        ELSE ClientKeyExchangeFinish(
                 [c EXCEPT !.handshake.pmslen = e.dhm_calc_secret.n,
                           !.handshake.premaster =
                               PremasterStore(c, 0,
                                   Fill(e.dhm_calc_secret.n, 75))], e)

ClientKeyExchangeEcdheRsa(s, e) ==
    LET r == ssl_parse_client_ecdh_public(s, e)
        z == EcpSize(s.handshake.ec_curve)
    IN  IF r # OK THEN Return(s, r)
        ELSE IF e.ecdh_calc_secret # OK
        THEN Return(s, POLARSSL_ERR_SSL_BAD_HS_CLIENT_KEY_EXCHANGE_CS)
        ELSE ClientKeyExchangeFinish(
                 [s EXCEPT !.handshake.pmslen = z,
                           !.handshake.premaster =
                               PremasterStore(s, 0, Fill(z, 90))], e)

ClientKeyExchangePsk(s, e) ==
    LET r == ssl_parse_client_psk_identity(s, 4)
        n == Len(s.psk)
        a == [s EXCEPT !.handshake.premaster =
                           PremasterStore(s, 0, <<Hi(n), Lo(n)>>)]
        b == [a EXCEPT !.handshake.premaster =
                           PremasterStore(a, 2 + n, <<Hi(n), Lo(n)>> \o s.psk),
                       !.handshake.pmslen = 4 + 2 * n]
    IN  IF r[1] # OK THEN Return(s, r[1])
        ELSE ClientKeyExchangeFinish(b, e)

ClientKeyExchangeDhePsk(s, e) ==
    LET r == ssl_parse_client_psk_identity(s, 4)
        q == ssl_parse_client_dh_public(s, e, r[2])
        n == Len(s.psk)
        a == [s EXCEPT !.handshake.premaster =
                           PremasterStore(s, 0, <<Hi(s.dhm_len),
                                                  Lo(s.dhm_len)>>)]
        b == [a EXCEPT !.handshake.premaster =
                           PremasterStore(a, 2,
                               Fill(e.dhm_calc_secret.n, 75))]
        c == [b EXCEPT !.handshake.premaster =
                           PremasterStore(b, 2 + s.dhm_len,
                               <<Hi(n), Lo(n)>> \o s.psk),
                       !.handshake.pmslen = 4 + s.dhm_len + n]
    IN  IF r[1] # OK THEN Return(s, r[1])
        ELSE IF q[1] # OK THEN Return(s, q[1])
        ELSE IF e.dhm_calc_secret.ret # OK
        THEN Return(a, POLARSSL_ERR_SSL_BAD_HS_CLIENT_KEY_EXCHANGE_CS)
        ELSE IF e.dhm_calc_secret.n # s.dhm_len
        THEN Return(b, POLARSSL_ERR_SSL_BAD_INPUT_DATA)
        ELSE ClientKeyExchangeFinish(c, e)

ClientKeyExchangeRsa(s, e) ==
    LET c == ssl_parse_encrypted_pms_secret(s, e)
    IN  IF c.ret # OK THEN c ELSE ClientKeyExchangeFinish(c, e)

ssl_parse_client_key_exchange(s, e) ==
    LET c == ssl_read_record(s, e)
        kx == s.transform_negotiate.ciphersuite_info.key_exchange
    IN  IF c.ret # OK THEN c
        ELSE IF c.in_msgtype # SSL_MSG_HANDSHAKE
        THEN Return(c, POLARSSL_ERR_SSL_BAD_HS_CLIENT_KEY_EXCHANGE)
        ELSE IF Msg(c, 0) # SSL_HS_CLIENT_KEY_EXCHANGE
        THEN Return(c, POLARSSL_ERR_SSL_BAD_HS_CLIENT_KEY_EXCHANGE)
        ELSE CASE kx = POLARSSL_KEY_EXCHANGE_DHE_RSA ->
                      ClientKeyExchangeDheRsa(c, e)
               [] kx = POLARSSL_KEY_EXCHANGE_ECDHE_RSA ->
                      ClientKeyExchangeEcdheRsa(c, e)
               [] kx = POLARSSL_KEY_EXCHANGE_PSK ->
                      ClientKeyExchangePsk(c, e)
               [] kx = POLARSSL_KEY_EXCHANGE_DHE_PSK ->
                      ClientKeyExchangeDhePsk(c, e)
               [] kx = POLARSSL_KEY_EXCHANGE_RSA ->
                      ClientKeyExchangeRsa(c, e)
               [] OTHER ->
                      Return(c, POLARSSL_ERR_SSL_FEATURE_UNAVAILABLE)

(***************************************************************************)
(* ssl_parse_certificate_verify                                            *)
(***************************************************************************)
\* from ssl->state++ to the end: the checks on the record just read
CertificateVerifyCheck(s, e) ==
    LET tls12 == s.minor_ver = SSL_MINOR_VERSION_3
        n == IF tls12 THEN 2 ELSE 0
        n1 == s.session_negotiate.peer_cert.rsa_len
        n2 == U16(Msg(s, 4 + n), Msg(s, 5 + n))
    IN  IF s.in_msgtype # SSL_MSG_HANDSHAKE
        THEN Return(s, POLARSSL_ERR_SSL_BAD_HS_CERTIFICATE_VERIFY)
        ELSE IF Msg(s, 0) # SSL_HS_CERTIFICATE_VERIFY
        THEN Return(s, POLARSSL_ERR_SSL_BAD_HS_CERTIFICATE_VERIFY)
        ELSE IF /\ tls12
                /\ \/ Msg(s, 4) # s.handshake.verify_sig_alg
                   \/ Msg(s, 5) # SSL_SIG_RSA
        THEN Return(s, POLARSSL_ERR_SSL_BAD_HS_CERTIFICATE_VERIFY)
        ELSE IF n + n1 + 6 # s.in_hslen \/ n1 # n2
        THEN Return(s, POLARSSL_ERR_SSL_BAD_HS_CERTIFICATE_VERIFY)
        ELSE Return(s, e.rsa_pkcs1_verify)

\* a variant that computes the digest once the record has been read
ssl_parse_certificate_verify_late(s, e) ==
    LET kx == s.transform_negotiate.ciphersuite_info.key_exchange
        r == ssl_read_record(s, e)
        c == [r EXCEPT !.calc_verify = r.transcript]
    IN  IF \/ kx = POLARSSL_KEY_EXCHANGE_PSK
           \/ kx = POLARSSL_KEY_EXCHANGE_DHE_PSK
        THEN [s EXCEPT !.state = @ + 1, !.ret = OK]
        ELSE IF s.session_negotiate.peer_cert = NULL
        THEN [s EXCEPT !.state = @ + 1, !.ret = OK]
        ELSE IF c.ret # OK THEN c
        ELSE CertificateVerifyCheck([c EXCEPT !.state = @ + 1], e)

ssl_parse_certificate_verify(s, e) ==
    LET kx == s.transform_negotiate.ciphersuite_info.key_exchange
        h == [s EXCEPT !.calc_verify = s.transcript]
        c == ssl_read_record(h, e)
    IN  IF \/ kx = POLARSSL_KEY_EXCHANGE_PSK
           \/ kx = POLARSSL_KEY_EXCHANGE_DHE_PSK
        THEN [s EXCEPT !.state = @ + 1, !.ret = OK]
        ELSE IF s.session_negotiate.peer_cert = NULL
        THEN [s EXCEPT !.state = @ + 1, !.ret = OK]
        ELSE IF c.ret # OK THEN c
        ELSE CertificateVerifyCheck([c EXCEPT !.state = @ + 1], e)

(***************************************************************************)
(* The handlers of ssl_tls.c the driver dispatches to.  Their code is not  *)
(* part of ssl_srv.c; they follow the state order of the handshake: a      *)
(* handler that succeeds leaves state at the successor, one that fails     *)
(* leaves it alone.                                                        *)
(***************************************************************************)
ssl_flush_output(s, e) == [s EXCEPT !.flushed = TRUE, !.ret = e.flush]

ssl_write_certificate(s, e) ==
    IF e.write # OK THEN Return(s, e.write)
    ELSE [s EXCEPT !.state = @ + 1, !.ret = OK]

\* the peer's certificate is kept only when one was asked for
ssl_parse_certificate(s, e) ==
    LET kx == s.transform_negotiate.ciphersuite_info.key_exchange
        asked == /\ s.authmode # SSL_VERIFY_NONE
                 /\ kx # POLARSSL_KEY_EXCHANGE_PSK
                 /\ kx # POLARSSL_KEY_EXCHANGE_DHE_PSK
    IN  IF e.read # OK THEN Return(s, e.read)
        ELSE [s EXCEPT !.state = @ + 1,
                       !.session_negotiate.peer_cert =
                           IF asked THEN e.peer_cert ELSE NULL,
                       !.ret = OK]

ssl_parse_change_cipher_spec(s, e) ==
    IF e.read # OK THEN Return(s, e.read)
    ELSE [s EXCEPT !.state = @ + 1, !.ret = OK]

ssl_parse_finished(s, e) ==
    IF e.read # OK THEN Return(s, e.read)
    ELSE [s EXCEPT !.state = @ + 1, !.ret = OK]

ssl_write_change_cipher_spec(s, e) ==
    IF e.write # OK THEN Return(s, e.write)
    ELSE [s EXCEPT !.state = @ + 1, !.ret = OK]

ssl_write_finished(s, e) ==
    IF e.write # OK THEN Return(s, e.write)
    ELSE [s EXCEPT !.state = @ + 1, !.ret = OK]

ssl_handshake_wrapup(s) == [s EXCEPT !.state = SSL_HANDSHAKE_OVER]

(***************************************************************************)
(* ssl_handshake_server_step: one call of the driver.                      *)
(***************************************************************************)
\* what a call has done so far is observed in ret, alerts, sni_calls,
\* sni_name (the name the SNI callback was given),
\* flushed and dispatched; a call starts with nothing done
EnterCall(s) ==
    [s EXCEPT !.ret = NONE, !.alerts = <<>>, !.sni_calls = 0,
              !.sni_name = <<>>,
              !.flushed = FALSE, !.dispatched = FALSE]

\* the switch( ssl->state )
Dispatch(s, e, wire) ==
    LET d == [s EXCEPT !.dispatched = TRUE, !.ret = OK]
    IN  CASE s.state = SSL_HELLO_REQUEST ->
                [d EXCEPT !.state = SSL_CLIENT_HELLO]
          [] s.state = SSL_CLIENT_HELLO -> ssl_parse_client_hello(d, e, wire)
          [] s.state = SSL_SERVER_HELLO -> ssl_write_server_hello(d, e)
          [] s.state = SSL_SERVER_CERTIFICATE -> ssl_write_certificate(d, e)
          [] s.state = SSL_SERVER_KEY_EXCHANGE ->
                ssl_write_server_key_exchange(d, e)
          [] s.state = SSL_CERTIFICATE_REQUEST ->
                ssl_write_certificate_request(d, e)
          [] s.state = SSL_SERVER_HELLO_DONE ->
                ssl_write_server_hello_done(d, e)
          [] s.state = SSL_CLIENT_CERTIFICATE -> ssl_parse_certificate(d, e)
          [] s.state = SSL_CLIENT_KEY_EXCHANGE ->
                ssl_parse_client_key_exchange(d, e)
          [] s.state = SSL_CERTIFICATE_VERIFY ->
                ssl_parse_certificate_verify(d, e)
          [] s.state = SSL_CLIENT_CHANGE_CIPHER_SPEC ->
                ssl_parse_change_cipher_spec(d, e)
          [] s.state = SSL_CLIENT_FINISHED -> ssl_parse_finished(d, e)
          [] s.state = SSL_SERVER_CHANGE_CIPHER_SPEC ->
                ssl_write_change_cipher_spec(d, e)
          [] s.state = SSL_SERVER_FINISHED -> ssl_write_finished(d, e)
          [] s.state = SSL_FLUSH_BUFFERS ->
                [d EXCEPT !.state = SSL_HANDSHAKE_WRAPUP]
          [] s.state = SSL_HANDSHAKE_WRAPUP -> ssl_handshake_wrapup(d)
          [] OTHER -> Return(d, POLARSSL_ERR_SSL_BAD_INPUT_DATA)

\* a variant without the test for SSL_HANDSHAKE_OVER: the call flushes and
\* falls to the default of the switch
ssl_handshake_server_step_unguarded(s0, e, wire) ==
    LET s == EnterCall(s0)
        f == ssl_flush_output(s, e)
    IN  IF f.ret # OK THEN f ELSE Dispatch(f, e, wire)

ssl_handshake_server_step(s0, e, wire) ==
    LET s == EnterCall(s0)
    IN  IF s.state = SSL_HANDSHAKE_OVER
        THEN Return(s, POLARSSL_ERR_SSL_BAD_INPUT_DATA)
        ELSE LET f == ssl_flush_output(s, e)
             IN  IF f.ret # OK THEN f ELSE Dispatch(f, e, wire)

(***************************************************************************)
(* The ClientHellos the peer may send.                                     *)
(***************************************************************************)
\* all sequences over S of length lo..hi
SeqsOf(S, lo, hi) == UNION {[1..k -> S] : k \in lo..hi}

Hello(minor, ciphers, exts) ==
    [v2 |-> FALSE, minor |-> minor, sess |-> <<>>, ciphers |-> ciphers,
     comps |-> <<SSL_COMPRESS_NULL>>, exts |-> exts, chal |-> <<>>,
     fault |-> "none"]

HelloV2(minor, ciphers) ==
    [v2 |-> TRUE, minor |-> minor, sess |-> <<>>, ciphers |-> ciphers,
     comps |-> <<>>, exts |-> <<>>, chal |-> Fill(16, 67), fault |-> "none"]

ExtServername(name) ==
    [id |-> TLS_EXT_SERVERNAME,
     body |-> <<Hi(Len(name) + 3), Lo(Len(name) + 3),
                TLS_EXT_SERVERNAME_HOSTNAME, Hi(Len(name)), Lo(Len(name))>>
              \o name]

ExtRenegotiationInfo(data) ==
    [id |-> TLS_EXT_RENEGOTIATION_INFO, body |-> <<Len(data)>> \o data]

ExtSigAlg(hashes) ==
    [id |-> TLS_EXT_SIG_ALG,
     body |-> <<Hi(2 * Len(hashes)), Lo(2 * Len(hashes))>>
              \o Flatten([i \in 1..Len(hashes) |-> <<hashes[i], SSL_SIG_RSA>>])]

ExtEllipticCurves(curves) ==
    [id |-> TLS_EXT_SUPPORTED_ELLIPTIC_CURVES,
     body |-> <<Hi(2 * Len(curves)), Lo(2 * Len(curves))>>
              \o Flatten([i \in 1..Len(curves) |-> <<0, curves[i]>>])]

ExtPointFormats(formats) ==
    [id |-> TLS_EXT_SUPPORTED_POINT_FORMATS,
     body |-> <<Len(formats)>> \o formats]

\* an extension the server does not know (SessionTicket)
ExtUnknown == [id |-> 35, body |-> <<>>]

\* the verify data of the handshake before a renegotiation
PeerVerifyData == Fill(VerifyDataLen, 112)
OwnVerifyData == Fill(VerifyDataLen, 111)

ExtPool ==
    {ExtServername(<<97, 98>>),
     [id |-> TLS_EXT_SERVERNAME, body |-> <<0, 9, 0, 0, 2, 97, 98>>],
     ExtRenegotiationInfo(<<>>),
     ExtRenegotiationInfo(PeerVerifyData),
     ExtSigAlg(<<SSL_HASH_SHA1, SSL_HASH_SHA256>>),
     ExtEllipticCurves(<<POLARSSL_ECP_DP_SECP256R1>>),
     ExtEllipticCurves(<<99>>),
     [id |-> TLS_EXT_SUPPORTED_ELLIPTIC_CURVES, body |-> <<0, 3, 0>>],
     ExtPointFormats(<<POLARSSL_ECP_PF_UNCOMPRESSED>>),
     ExtUnknown}

CipherPool ==
    {TLS_RSA_WITH_AES_128_CBC_SHA, TLS_RSA_WITH_AES_128_CBC_SHA256,
     TLS_ECDHE_RSA_WITH_AES_128_CBC_SHA, TLS_EMPTY_RENEGOTIATION_INFO_SCSV}

HelloFaults ==
    {"sess_len", "ciph_odd", "ciph_zero", "ciph_big", "comp_zero",
     "comp_big", "comp_over", "ext_len", "ext_short", "ext_size",
     "ext_slack", "hs_major", "hs_len", "hs_type", "hs_len_hi",
     "rec_short", "rec_long", "rec_type", "rec_major"}

HelloV2Faults ==
    {"ciph_odd", "ciph_zero", "sess_len", "chal_len", "rec_short",
     "rec_long", "hs_type", "hs_major"}

\* client version, client list and the curves extension vary
VersionHellos ==
    {Hello(minor, ciphers, exts) :
        minor \in 0..4,
        ciphers \in SeqsOf(CipherPool, 1, MaxCiphers),
        exts \in {<<>>,
                  <<ExtEllipticCurves(<<POLARSSL_ECP_DP_SECP256R1>>)>>}}

\* the extensions vary, in number and in order
ExtensionHellos ==
    {Hello(SSL_MINOR_VERSION_3,
           <<TLS_RSA_WITH_AES_128_CBC_SHA,
             TLS_ECDHE_RSA_WITH_AES_128_CBC_SHA>>, exts) :
        exts \in SeqsOf(ExtPool, 0, MaxExts)}

\* one framing fault in an otherwise acceptable ClientHello
FaultyHellos ==
    {[Hello(SSL_MINOR_VERSION_3, <<TLS_RSA_WITH_AES_128_CBC_SHA>>, exts)
         EXCEPT !.fault = f] :
        f \in HelloFaults,
        exts \in {<<>>, <<ExtRenegotiationInfo(<<>>)>>}}

V2Hellos ==
    {[HelloV2(minor, ciphers) EXCEPT !.fault = f] :
        minor \in 0..4,
        ciphers \in SeqsOf({TLS_RSA_WITH_AES_128_CBC_SHA,
                            TLS_ECDHE_RSA_WITH_AES_128_CBC_SHA,
                            TLS_EMPTY_RENEGOTIATION_INFO_SCSV},
                           1, MaxCiphers),
        f \in {"none"}}
    \cup {[HelloV2(SSL_MINOR_VERSION_3, <<TLS_RSA_WITH_AES_128_CBC_SHA>>)
              EXCEPT !.fault = f] : f \in HelloV2Faults}

(***************************************************************************)
(* Configurations and the context after ssl_init / ssl_session_reset (or,  *)
(* for a renegotiation, after the record layer has read the ClientHello    *)
(* that starts it).                                                        *)
(***************************************************************************)
Config(lo, hi, suites) ==
    [min_minor_ver |-> lo, max_minor_ver |-> hi, suites |-> suites,
     renegotiation |-> SSL_INITIAL_HANDSHAKE,
     secure_renegotiation |-> SSL_LEGACY_RENEGOTIATION,
     allow_legacy_renegotiation |-> SSL_LEGACY_NO_RENEGOTIATION,
     f_sni |-> TRUE, f_get_cache |-> FALSE, zlib_support |-> FALSE,
     sslv2_client_hello |-> TRUE, authmode |-> SSL_VERIFY_NONE,
     rsa_key |-> TRUE, psk |-> <<17, 34>>, psk_identity |-> <<105, 100>>,
     ca_chain |-> <<>>, in_stale |-> 0, sig_alg |-> SSL_HASH_SHA1,
     premaster |-> <<>>]

Context(cfg, h) ==
    LET reneg == cfg.renegotiation # SSL_INITIAL_HANDSHAKE
        w == Wire(h)
    IN  [state |-> SSL_HELLO_REQUEST,
         renegotiation |-> cfg.renegotiation,
         secure_renegotiation |-> cfg.secure_renegotiation,
         allow_legacy_renegotiation |-> cfg.allow_legacy_renegotiation,
         renegotiation_info_seen |-> FALSE,
         major_ver |-> IF reneg THEN SSL_MAJOR_VERSION_3 ELSE 0,
         minor_ver |-> IF reneg THEN cfg.max_minor_ver ELSE 0,
         min_minor_ver |-> cfg.min_minor_ver,
         max_minor_ver |-> cfg.max_minor_ver,
         ciphersuite_list |-> [m \in 0..3 |-> cfg.suites],
         f_sni |-> cfg.f_sni,
         f_get_cache |-> cfg.f_get_cache,
         zlib_support |-> cfg.zlib_support,
         sslv2_client_hello |-> cfg.sslv2_client_hello,
         authmode |-> cfg.authmode,
         rsa_key |-> cfg.rsa_key,
         rsa_key_len |-> RsaKeyLen,
         dhm_len |-> DhmLen,
         psk |-> cfg.psk,
         psk_identity |-> cfg.psk_identity,
         ca_chain |-> cfg.ca_chain,
         verify_data_len |-> IF reneg THEN VerifyDataLen ELSE 0,
         peer_verify_data |-> IF reneg THEN PeerVerifyData ELSE <<>>,
         own_verify_data |-> IF reneg THEN OwnVerifyData ELSE <<>>,
         in_hdr |-> IF reneg THEN SubSeq(w, 1, 5) ELSE <<>>,
         in_msg |-> IF reneg THEN SubSeq(w, 6, Len(w)) ELSE <<>>,
         in_stale |-> cfg.in_stale,
         in_left |-> 0,
         in_msglen |-> IF reneg THEN Len(w) - 5 ELSE 0,
         in_msgtype |-> IF reneg THEN SSL_MSG_HANDSHAKE ELSE 0,
         in_hslen |-> IF reneg THEN Len(w) - 5 ELSE 0,
         handshake |->
             [max_major_ver |-> 0, max_minor_ver |-> 0,
              randbytes |-> Fill(64, 0), sig_alg |-> cfg.sig_alg,
              verify_sig_alg |-> 0, ec_curve |-> 0, ec_point_format |-> 0,
              resume |-> FALSE, pmslen |-> 0, premaster |-> cfg.premaster],
         session_negotiate |->
             [length |-> 0, id |-> Fill(32, 0), ciphersuite |-> 0,
              compression |-> SSL_COMPRESS_NULL, peer_cert |-> NULL],
         transform_negotiate |-> [ciphersuite_info |-> NULL],
         ret |-> NONE, alerts |-> <<>>, sni_calls |-> 0, sni_name |-> <<>>,
         flushed |-> FALSE, dispatched |-> FALSE,
         transcript |-> <<>>, sent |-> <<>>, cache_lookup |-> NULL,
         md_ctx_live |-> 0, derive_calls |-> 0, calc_verify |-> <<>>]

(***************************************************************************)
(* What the transport, the callbacks, the crypto library and the peer      *)
(* answer during one call of the driver.                                   *)
(***************************************************************************)
NoRecord == [name |-> "none", msgtype |-> 0, msg |-> <<>>]

EnvOK ==
    [flush |-> OK, fetch_hdr |-> OK, fetch_msg |-> OK, alert |-> OK,
     sni |-> OK, rng |-> OK, rng2 |-> OK, cache |-> ERR_CALLBACK,
     derive |-> OK, write |-> OK, read |-> OK, rec |-> NoRecord,
     peer_cert |-> NULL, mpi_copy |-> OK, dhm_make_params |-> OK,
     ecp_use_known_dp |-> OK, ecdh_make_params |-> OK, md_init_ctx |-> OK,
     rsa_sign |-> OK, dhm_read_public |-> OK,
     dhm_calc_secret |-> [ret |-> OK, n |-> DhmLen],
     ecdh_read_public |-> OK, ecdh_calc_secret |-> OK,
     rsa_decrypt |-> [ret |-> OK, out |-> <<>>], rsa_pkcs1_verify |-> OK]

EnvFlush ==
    {[EnvOK EXCEPT !.flush = r] :
        r \in {POLARSSL_ERR_NET_WANT_WRITE, POLARSSL_ERR_NET_CONN_RESET}}

EnvWrite ==
    {EnvOK} \cup EnvFlush \cup
    {[EnvOK EXCEPT !.write = r] :
        r \in {POLARSSL_ERR_NET_WANT_WRITE, POLARSSL_ERR_NET_CONN_RESET}}

EnvRead ==
    {EnvOK} \cup EnvFlush \cup
    {[EnvOK EXCEPT !.read = r] :
        r \in {POLARSSL_ERR_NET_WANT_READ, POLARSSL_ERR_NET_CONN_RESET}}

EnvClientHello ==
    {EnvOK} \cup EnvFlush \cup
    {[EnvOK EXCEPT !.fetch_hdr = POLARSSL_ERR_NET_WANT_READ],
     [EnvOK EXCEPT !.fetch_msg = POLARSSL_ERR_NET_CONN_RESET],
     [EnvOK EXCEPT !.alert = POLARSSL_ERR_NET_WANT_WRITE],
     [EnvOK EXCEPT !.sni = ERR_CALLBACK]}

EnvServerHello ==
    EnvWrite \cup
    {[EnvOK EXCEPT !.rng = POLARSSL_ERR_RNG_FAILED],
     [EnvOK EXCEPT !.rng2 = POLARSSL_ERR_RNG_FAILED],
     [EnvOK EXCEPT !.cache = OK],
     [EnvOK EXCEPT !.cache = OK, !.derive = POLARSSL_ERR_CRYPTO_FAILED],
     [EnvOK EXCEPT !.cache = OK, !.write = POLARSSL_ERR_NET_WANT_WRITE]}

EnvServerKeyExchange ==
    EnvWrite \cup
    {[EnvOK EXCEPT !.mpi_copy = POLARSSL_ERR_CRYPTO_FAILED],
     [EnvOK EXCEPT !.dhm_make_params = POLARSSL_ERR_CRYPTO_FAILED],
     [EnvOK EXCEPT !.ecp_use_known_dp = POLARSSL_ERR_CRYPTO_FAILED],
     [EnvOK EXCEPT !.ecdh_make_params = POLARSSL_ERR_CRYPTO_FAILED],
     [EnvOK EXCEPT !.md_init_ctx = POLARSSL_ERR_CRYPTO_FAILED],
     [EnvOK EXCEPT !.rsa_sign = POLARSSL_ERR_CRYPTO_FAILED]}

EnvClientCertificate ==
    EnvRead \cup {[EnvOK EXCEPT !.peer_cert = [rsa_len |-> PeerRsaLen]]}

\* a handshake message: type, 3-byte length, body
HandshakeMsg(type, body) ==
    <<type, 0, Hi(Len(body)), Lo(Len(body))>> \o body

HandshakeRecord(name, type, body) ==
    [name |-> name, msgtype |-> SSL_MSG_HANDSHAKE,
     msg |-> HandshakeMsg(type, body)]

\* a fatal handshake_failure alert of the peer
AlertRecord == [name |-> "Alert", msgtype |-> 21, msg |-> <<2, 40>>]

\* 2-byte length decl, then n bytes of value v
Opaque16(decl, n, v) == <<Hi(decl), Lo(decl)>> \o Fill(n, v)

\* the ClientKeyExchange bodies a peer may send to context s: well formed
\* for each key exchange, and with wrong or inconsistent lengths
ClientKeyExchangeBodies(s) ==
    LET k == s.rsa_key_len
        d == s.dhm_len
        id == <<Hi(Len(s.psk_identity)), Lo(Len(s.psk_identity))>>
                  \o s.psk_identity
        pt == 2 * EcpSize(s.handshake.ec_curve) + 1
    IN  {Opaque16(k, k, 238), Opaque16(k + 1, k, 238), Opaque16(k, k + 1, 238),
         Fill(k, 238),
         Opaque16(d, d, 71), Opaque16(1, 1, 71), Opaque16(0, 0, 71),
         Opaque16(d + 1, d + 1, 71), Opaque16(d, 1, 71), <<0>>,
         <<pt>> \o Fill(pt, 4), <<>>, <<pt + 2>> \o Fill(pt + 2, 4),
         id, Opaque16(Len(s.psk_identity), Len(s.psk_identity), 120),
         Opaque16(0, 0, 0), id \o <<1>>,
         id \o Opaque16(d, d, 71), id \o Opaque16(0, 0, 71)}

ClientKeyExchangeRecords(s) ==
    {HandshakeRecord("ClientKeyExchange", SSL_HS_CLIENT_KEY_EXCHANGE, b) :
        b \in ClientKeyExchangeBodies(s)}
    \cup {HandshakeRecord("CertificateVerify", SSL_HS_CERTIFICATE_VERIFY,
                          <<0, 0>>),
          AlertRecord}

\* what rsa_decrypt may give: the premaster of an honest client, one with
\* another version, one of the wrong length, or a padding error
RsaDecryptOutcomes(s) ==
    {[ret |-> OK,
      out |-> <<s.handshake.max_major_ver, s.handshake.max_minor_ver>>
                  \o Fill(PremasterLen - 2, 80)],
     [ret |-> OK,
      out |-> <<s.handshake.max_major_ver,
                (s.handshake.max_minor_ver + 1) % 4>>
                  \o Fill(PremasterLen - 2, 80)],
     [ret |-> OK, out |-> Fill(PremasterLen - 1, 80)],
     [ret |-> POLARSSL_ERR_CRYPTO_FAILED, out |-> <<>>]}

EnvClientKeyExchange(s) ==
    EnvFlush \cup
    {[EnvOK EXCEPT !.read = r] :
        r \in {POLARSSL_ERR_NET_WANT_READ, POLARSSL_ERR_NET_CONN_RESET}} \cup
    {[x EXCEPT !.rec = r] :
        r \in ClientKeyExchangeRecords(s),
        x \in {[EnvOK EXCEPT !.rsa_decrypt = o] : o \in RsaDecryptOutcomes(s)}
              \cup
              {[EnvOK EXCEPT !.rsa_decrypt = o,
                             !.rng = POLARSSL_ERR_RNG_FAILED] :
                  o \in RsaDecryptOutcomes(s)}
              \cup
              {[EnvOK EXCEPT !.dhm_read_public = POLARSSL_ERR_CRYPTO_FAILED],
               [EnvOK EXCEPT !.dhm_calc_secret =
                                 [ret |-> POLARSSL_ERR_CRYPTO_FAILED, n |-> 0]],
               [EnvOK EXCEPT !.dhm_calc_secret =
                                 [ret |-> OK, n |-> DhmLen - 1]],
               [EnvOK EXCEPT !.ecdh_read_public = POLARSSL_ERR_CRYPTO_FAILED],
               [EnvOK EXCEPT !.ecdh_calc_secret = POLARSSL_ERR_CRYPTO_FAILED],
               [EnvOK EXCEPT !.derive = POLARSSL_ERR_CRYPTO_FAILED]}}

\* the CertificateVerify bodies a peer may send to context s
CertificateVerifyBodies(s) ==
    LET n == s.session_negotiate.peer_cert.rsa_len
        alg == s.handshake.verify_sig_alg
    IN  {Opaque16(n, n, 83), Opaque16(n + 1, n, 83), Opaque16(n, n + 1, 83),
         <<alg, SSL_SIG_RSA>> \o Opaque16(n, n, 83),
         <<SSL_HASH_MD5, SSL_SIG_RSA>> \o Opaque16(n, n, 83),
         <<alg, 2>> \o Opaque16(n, n, 83),
         <<alg, SSL_SIG_RSA>> \o Opaque16(n + 1, n, 83)}

CertificateVerifyRecords(s) ==
    IF s.session_negotiate.peer_cert = NULL THEN {NoRecord}
    ELSE {HandshakeRecord("CertificateVerify", SSL_HS_CERTIFICATE_VERIFY, b) :
             b \in CertificateVerifyBodies(s)}
         \cup {HandshakeRecord("ClientKeyExchange",
                               SSL_HS_CLIENT_KEY_EXCHANGE, <<0, 0>>),
               AlertRecord}

EnvCertificateVerify(s) ==
    EnvFlush \cup
    {[EnvOK EXCEPT !.read = r] :
        r \in {POLARSSL_ERR_NET_WANT_READ, POLARSSL_ERR_NET_CONN_RESET}} \cup
    {[x EXCEPT !.rec = r] :
        r \in CertificateVerifyRecords(s),
        x \in {EnvOK,
               [EnvOK EXCEPT !.rsa_pkcs1_verify = POLARSSL_ERR_CRYPTO_FAILED]}}

(***************************************************************************)
(* Initial states.                                                         *)
(***************************************************************************)
\* version ranges and preference lists, for an initial handshake
VersionConfigs ==
    {Config(r[1], r[2], suites) :
        r \in {<<0, 3>>, <<1, 2>>, <<3, 3>>},
        suites \in {<<TLS_ECDHE_RSA_WITH_AES_128_CBC_SHA,
                      TLS_RSA_WITH_AES_128_CBC_SHA>>,
                    <<TLS_RSA_WITH_AES_128_CBC_SHA256,
                      TLS_RSA_WITH_AES_128_CBC_SHA>>,
                    <<TLS_RSA_WITH_NULL_MD5,
                      TLS_ECDHE_RSA_WITH_AES_128_CBC_SHA>>}}

\* initial handshake or renegotiation, under each legacy policy
PolicyConfigs ==
    {[Config(0, 3, <<TLS_ECDHE_RSA_WITH_AES_128_CBC_SHA,
                     TLS_RSA_WITH_AES_128_CBC_SHA>>)
         EXCEPT !.renegotiation = k[1], !.secure_renegotiation = k[2],
                !.allow_legacy_renegotiation = k[3], !.f_sni = k[4]] :
        k \in {<<SSL_INITIAL_HANDSHAKE, SSL_LEGACY_RENEGOTIATION,
                 SSL_LEGACY_NO_RENEGOTIATION, TRUE>>,
               <<SSL_INITIAL_HANDSHAKE, SSL_LEGACY_RENEGOTIATION,
                 SSL_LEGACY_BREAK_HANDSHAKE, TRUE>>,
               <<SSL_INITIAL_HANDSHAKE, SSL_LEGACY_RENEGOTIATION,
                 SSL_LEGACY_ALLOW_RENEGOTIATION, TRUE>>,
               <<SSL_INITIAL_HANDSHAKE, SSL_LEGACY_RENEGOTIATION,
                 SSL_LEGACY_NO_RENEGOTIATION, FALSE>>,
               <<SSL_RENEGOTIATION, SSL_SECURE_RENEGOTIATION,
                 SSL_LEGACY_ALLOW_RENEGOTIATION, TRUE>>,
               <<SSL_RENEGOTIATION, SSL_SECURE_RENEGOTIATION,
                 SSL_LEGACY_BREAK_HANDSHAKE, TRUE>>,
               <<SSL_RENEGOTIATION, SSL_SECURE_RENEGOTIATION,
                 SSL_LEGACY_NO_RENEGOTIATION, TRUE>>,
               <<SSL_RENEGOTIATION, SSL_LEGACY_RENEGOTIATION,
                 SSL_LEGACY_NO_RENEGOTIATION, TRUE>>,
               <<SSL_RENEGOTIATION, SSL_LEGACY_RENEGOTIATION,
                 SSL_LEGACY_ALLOW_RENEGOTIATION, TRUE>>,
               <<SSL_RENEGOTIATION, SSL_LEGACY_RENEGOTIATION,
                 SSL_LEGACY_BREAK_HANDSHAKE, TRUE>>}}

\* what lies in the input buffer behind the fetched bytes, zlib or not
FaultConfigs ==
    {[Config(0, 3, <<TLS_RSA_WITH_AES_128_CBC_SHA>>)
         EXCEPT !.in_stale = b, !.zlib_support = z] :
        b \in {0, 1}, z \in BOOLEAN}

\* with and without support for SSLv2-compatible ClientHellos
V2Configs ==
    VersionConfigs \cup
    {[Config(0, 3, <<TLS_RSA_WITH_AES_128_CBC_SHA>>)
         EXCEPT !.sslv2_client_hello = FALSE]}

\* extension bodies too short for their own length prefix, and a name list
\* whose entry is shorter than the 3 bytes in front of a name
ShortExtPool ==
    {[id |-> i, body |-> b] :
        i \in {TLS_EXT_SERVERNAME, TLS_EXT_SIG_ALG,
                TLS_EXT_SUPPORTED_ELLIPTIC_CURVES,
                TLS_EXT_SUPPORTED_POINT_FORMATS},
        b \in {<<>>, <<0>>}}
    \cup {[id |-> TLS_EXT_SERVERNAME, body |-> <<0, 1, 0>>],
          [id |-> TLS_EXT_SERVERNAME, body |-> <<0, 2, 0, 0>>]}

ShortBodyHellos ==
    {Hello(SSL_MINOR_VERSION_3, <<TLS_RSA_WITH_AES_128_CBC_SHA>>, <<x>>) :
        x \in ShortExtPool}

\* one entry of a server_name list: type, 2-byte length, name
NameEntry(type, name) == <<type, Hi(Len(name)), Lo(Len(name))>> \o name

\* server_name lists of two entries, host names and names of another type
NameListHellos ==
    {Hello(SSL_MINOR_VERSION_3, <<TLS_RSA_WITH_AES_128_CBC_SHA>>,
           <<[id |-> TLS_EXT_SERVERNAME,
              body |-> <<Hi(Len(l)), Lo(Len(l))>> \o l]>>) :
        l \in {NameEntry(t[1], <<97>>) \o NameEntry(t[2], <<98, 99>>) :
                 t \in {0, 1} \X {0, 1}}}

\* SNI callback installed or not
NameConfigs ==
    {[Config(0, 3, <<TLS_RSA_WITH_AES_128_CBC_SHA>>) EXCEPT !.f_sni = b] :
        b \in BOOLEAN}

\* the signalling ciphersuite next to a real one, with and without the
\* renegotiation_info of a renegotiation
SignallingHellos ==
    {Hello(SSL_MINOR_VERSION_3, ciphers, exts) :
        ciphers \in {<<TLS_RSA_WITH_AES_128_CBC_SHA,
                       TLS_EMPTY_RENEGOTIATION_INFO_SCSV>>,
                     <<TLS_EMPTY_RENEGOTIATION_INFO_SCSV,
                       TLS_RSA_WITH_AES_128_CBC_SHA>>},
        exts \in {<<>>, <<ExtRenegotiationInfo(PeerVerifyData)>>}}

\* ec_point_formats lists of one and two formats, last extension or not
PointFormatHellos ==
    {Hello(SSL_MINOR_VERSION_3, <<TLS_RSA_WITH_AES_128_CBC_SHA>>,
           <<ExtPointFormats(f)>> \o rest) :
        f \in {<<POLARSSL_ECP_PF_COMPRESSED>>,
                <<POLARSSL_ECP_PF_COMPRESSED, POLARSSL_ECP_PF_UNCOMPRESSED>>,
                <<2, POLARSSL_ECP_PF_COMPRESSED>>,
                <<2>>},
        rest \in {<<>>, <<ExtUnknown>>}}

\* SSLv2-compatible ClientHellos for the policy configurations, the
\* renegotiations among them
V2PolicyHellos ==
    {HelloV2(minor, ciphers) :
        minor \in {1, SSL_MINOR_VERSION_3},
        ciphers \in {<<TLS_RSA_WITH_AES_128_CBC_SHA>>,
                     <<TLS_RSA_WITH_AES_128_CBC_SHA,
                       TLS_EMPTY_RENEGOTIATION_INFO_SCSV>>}}

\* ClientHellos that advertise a version below the configured maximum, for
\* the policy configurations: in a renegotiation the connection was
\* established at another version than the one they ask for
LowVersionHellos ==
    {Hello(minor, ciphers, exts) :
        minor \in {SSL_MINOR_VERSION_0, 1},
        ciphers \in {<<TLS_RSA_WITH_AES_128_CBC_SHA>>,
                     <<TLS_PSK_WITH_AES_128_CBC_SHA>>},
        exts \in {<<>>, <<ExtRenegotiationInfo(PeerVerifyData)>>}}

HelloInputs ==
    (VersionHellos \X VersionConfigs)
    \cup (LowVersionHellos \X PolicyConfigs)
    \cup (V2PolicyHellos \X PolicyConfigs)
    \cup (PointFormatHellos \X FaultConfigs)
    \cup (SignallingHellos \X PolicyConfigs)
    \cup (NameListHellos \X NameConfigs)
    \cup (ExtensionHellos \X PolicyConfigs)
    \cup (ShortBodyHellos \X FaultConfigs)
    \cup ((FaultyHellos
           \cup {[Hello(SSL_MINOR_VERSION_3, <<TLS_RSA_WITH_AES_128_CBC_SHA>>,
                        <<>>) EXCEPT !.comps = c] :
                    c \in {<<SSL_COMPRESS_DEFLATE, SSL_COMPRESS_NULL>>,
                           <<SSL_COMPRESS_NULL, SSL_COMPRESS_DEFLATE>>}})
          \X FaultConfigs)
    \cup (V2Hellos \X V2Configs)

\* a ClientHello offering exactly the suite, with the extensions it needs
SuiteHello(minor, suite, sigalg) ==
    [Hello(minor, <<suite>>,
           (IF sigalg THEN <<ExtSigAlg(<<SSL_HASH_SHA256>>)>> ELSE <<>>)
           \o <<ExtEllipticCurves(<<POLARSSL_ECP_DP_SECP192R1>>),
                ExtRenegotiationInfo(<<>>)>>)
        EXCEPT !.sess = Fill(32, 115)]

\* one handshake per key exchange, version, authmode, cache and key setup
HandshakeInputs ==
    {<<SuiteHello(v[1], suite, v[2]),
       [Config(0, 3, <<suite>>)
           EXCEPT !.authmode = k[1], !.f_get_cache = k[2], !.rsa_key = k[3],
                  !.sig_alg = IF v[2] THEN SSL_HASH_SHA1 ELSE SSL_HASH_NONE,
                  !.ca_chain = <<5, 7>>]>> :
        v \in {<<0, FALSE>>, <<3, TRUE>>, <<3, FALSE>>},
        suite \in {TLS_RSA_WITH_AES_128_CBC_SHA,
                   TLS_DHE_RSA_WITH_AES_128_CBC_SHA,
                   TLS_ECDHE_RSA_WITH_AES_128_CBC_SHA,
                   TLS_PSK_WITH_AES_128_CBC_SHA,
                   TLS_DHE_PSK_WITH_AES_128_CBC_SHA},
        k \in {<<SSL_VERIFY_NONE, FALSE, TRUE>>,
               <<SSL_VERIFY_REQUIRED, TRUE, TRUE>>,
               <<SSL_VERIFY_OPTIONAL, FALSE, FALSE>>}}
    \cup
    \* a secure renegotiation, session cache installed
    {<<[Hello(SSL_MINOR_VERSION_3, <<TLS_RSA_WITH_AES_128_CBC_SHA>>,
              <<ExtRenegotiationInfo(PeerVerifyData)>>)
           EXCEPT !.sess = Fill(32, 115)],
       [Config(0, 3, <<TLS_RSA_WITH_AES_128_CBC_SHA>>)
           EXCEPT !.renegotiation = SSL_RENEGOTIATION,
                  !.secure_renegotiation = SSL_SECURE_RENEGOTIATION,
                  !.f_get_cache = TRUE]>>}
    \cup
    \* a TLS 1.2 suite whose MAC is SHA384, with client authentication
    \* and CA chains of short and of long subject names
    {<<SuiteHello(SSL_MINOR_VERSION_3, TLS_RSA_WITH_AES_256_GCM_SHA384, TRUE),
       [Config(0, 3, <<TLS_RSA_WITH_AES_256_GCM_SHA384>>)
           EXCEPT !.authmode = SSL_VERIFY_REQUIRED, !.ca_chain = chain]>> :
        chain \in {<<5, 7>>, <<4000, 200, 9>>}}
    \cup
    \* a client that has no session to resume, session cache installed
    {<<[Hello(SSL_MINOR_VERSION_3, <<TLS_RSA_WITH_AES_128_CBC_SHA>>, x[2])
           EXCEPT !.sess = x[1]],
       [Config(0, 3, <<TLS_RSA_WITH_AES_128_CBC_SHA>>)
           EXCEPT !.f_get_cache = TRUE]>> :
        x \in {<<<<>>, <<ExtRenegotiationInfo(<<>>)>>>>,
                <<<<115, 116>>, <<>>>>}}
    \cup
    \* a PSK handshake whose premaster buffer is not clear when the
    \* handshake starts: no statement of ssl_srv.c clears it
    {<<SuiteHello(SSL_MINOR_VERSION_3, TLS_PSK_WITH_AES_128_CBC_SHA, FALSE),
       [Config(0, 3, <<TLS_PSK_WITH_AES_128_CBC_SHA>>)
           EXCEPT !.premaster = Fill(StalePremasterLen, 204)]>>}

Init ==
    \E i \in HandshakeInputs :
        /\ ssl = Context(i[2], i[1])
        /\ net = Wire(i[1])
        /\ recalls = 0
        /\ twin = NULL

\* the state in which the first call (at SSL_HELLO_REQUEST) leaves the
\* context when its flush succeeds
InitHello ==
    \E i \in HelloInputs :
        /\ ssl = ssl_handshake_server_step(Context(i[2], i[1]), EnvOK,
                                            Wire(i[1]))
        /\ net = Wire(i[1])
        /\ recalls = 0
        /\ twin = NULL

(***************************************************************************)
(* Actions: the caller invokes ssl_handshake_server_step; one action per   *)
(* state the call finds.  The caller calls again after a call that did not *)
(* return 0 (to retry, or in spite of a terminal error) at most MaxRecalls *)
(* times.                                                                  *)
(***************************************************************************)
Failed(ret) == ret # NONE /\ ret # OK

Call(e) ==
    /\ Failed(ssl.ret) => recalls < MaxRecalls
    /\ ssl' = ssl_handshake_server_step(ssl, e, net)
    /\ recalls' = IF Failed(ssl.ret) THEN recalls + 1 ELSE recalls
    /\ net' = net
    /\ twin' = twin

StepHelloRequest ==
    ssl.state = SSL_HELLO_REQUEST /\ \E e \in {EnvOK} \cup EnvFlush : Call(e)

StepClientHello ==
    ssl.state = SSL_CLIENT_HELLO /\ \E e \in EnvClientHello : Call(e)

StepServerHello ==
    ssl.state = SSL_SERVER_HELLO /\ \E e \in EnvServerHello : Call(e)

StepServerCertificate ==
    ssl.state = SSL_SERVER_CERTIFICATE /\ \E e \in EnvWrite : Call(e)

StepServerKeyExchange ==
    ssl.state = SSL_SERVER_KEY_EXCHANGE
        /\ \E e \in EnvServerKeyExchange : Call(e)

StepCertificateRequest ==
    ssl.state = SSL_CERTIFICATE_REQUEST /\ \E e \in EnvWrite : Call(e)

StepServerHelloDone ==
    ssl.state = SSL_SERVER_HELLO_DONE /\ \E e \in EnvWrite : Call(e)

StepClientCertificate ==
    ssl.state = SSL_CLIENT_CERTIFICATE
        /\ \E e \in EnvClientCertificate : Call(e)

StepClientKeyExchange ==
    ssl.state = SSL_CLIENT_KEY_EXCHANGE
        /\ \E e \in EnvClientKeyExchange(ssl) : Call(e)

StepCertificateVerify ==
    ssl.state = SSL_CERTIFICATE_VERIFY
        /\ \E e \in EnvCertificateVerify(ssl) : Call(e)

StepClientChangeCipherSpec ==
    ssl.state = SSL_CLIENT_CHANGE_CIPHER_SPEC /\ \E e \in EnvRead : Call(e)

StepClientFinished ==
    ssl.state = SSL_CLIENT_FINISHED /\ \E e \in EnvRead : Call(e)

StepServerChangeCipherSpec ==
    ssl.state = SSL_SERVER_CHANGE_CIPHER_SPEC /\ \E e \in EnvWrite : Call(e)

StepServerFinished ==
    ssl.state = SSL_SERVER_FINISHED /\ \E e \in EnvWrite : Call(e)

StepFlushBuffers ==
    ssl.state = SSL_FLUSH_BUFFERS /\ \E e \in {EnvOK} \cup EnvFlush : Call(e)

StepHandshakeWrapup ==
    ssl.state = SSL_HANDSHAKE_WRAPUP
        /\ \E e \in {EnvOK} \cup EnvFlush : Call(e)

StepHandshakeOver ==
    ssl.state = SSL_HANDSHAKE_OVER /\ \E e \in {EnvOK} \cup EnvFlush : Call(e)

Next ==
    \/ StepHelloRequest
    \/ StepClientHello
    \/ StepServerHello
    \/ StepServerCertificate
    \/ StepServerKeyExchange
    \/ StepCertificateRequest
    \/ StepServerHelloDone
    \/ StepClientCertificate
    \/ StepClientKeyExchange
    \/ StepCertificateVerify
    \/ StepClientChangeCipherSpec
    \/ StepClientFinished
    \/ StepServerChangeCipherSpec
    \/ StepServerFinished
    \/ StepFlushBuffers
    \/ StepHandshakeWrapup
    \/ StepHandshakeOver

Spec == Init /\ [][Next]_vars

\* the ClientHello parser alone, over the wide set of ClientHellos
NextHello == StepClientHello

SpecHello == InitHello /\ [][NextHello]_vars

(***************************************************************************)
(* Two initial handshakes side by side whose ClientHellos differ only in   *)
(* how they signal secure renegotiation: ssl/net with the SCSV in the      *)
(* ciphersuite list, twin with an empty renegotiation_info extension.      *)
(***************************************************************************)
\* an extension that brings the record close to the 512 bytes the parser
\* allows (the padding extension)
ExtPadding == [id |-> 21, body |-> Fill(458, 0)]

\* sequence q with x put in front or at the back
PutAt(q, x, front) == IF front THEN <<x>> \o q ELSE Append(q, x)

\* the ClientHellos without signalling
ScsvBaseHellos ==
    {Hello(minor, ciphers, exts) :
        minor \in {SSL_MINOR_VERSION_0, SSL_MINOR_VERSION_3},
        ciphers \in SeqsOf({TLS_RSA_WITH_AES_128_CBC_SHA,
                            TLS_ECDHE_RSA_WITH_AES_128_CBC_SHA},
                           1, MaxCiphers),
        exts \in SeqsOf({ExtServername(<<97, 98>>),
                         [id |-> TLS_EXT_SERVERNAME,
                          body |-> <<0, 9, 0, 0, 2, 97, 98>>],
                         ExtEllipticCurves(<<POLARSSL_ECP_DP_SECP256R1>>),
                         ExtUnknown, ExtPadding}, 0, 1)}

ScsvConfigs ==
    {[Config(r[1], r[2], suites) EXCEPT !.allow_legacy_renegotiation = k] :
        r \in {<<0, 3>>, <<3, 3>>},
        suites \in {<<TLS_ECDHE_RSA_WITH_AES_128_CBC_SHA,
                      TLS_RSA_WITH_AES_128_CBC_SHA>>,
                    <<TLS_RSA_WITH_NULL_MD5>>},
        k \in {SSL_LEGACY_NO_RENEGOTIATION, SSL_LEGACY_BREAK_HANDSHAKE}}

\* both handshakes as the first call (at SSL_HELLO_REQUEST) leaves them
InitScsv ==
    \E h \in ScsvBaseHellos, cfg \in ScsvConfigs, fa \in BOOLEAN,
       fb \in BOOLEAN :
        LET a == [h EXCEPT !.ciphers =
                      PutAt(@, TLS_EMPTY_RENEGOTIATION_INFO_SCSV, fa)]
            b == [h EXCEPT !.exts =
                      PutAt(@, ExtRenegotiationInfo(<<>>), fb)]
        IN  /\ ssl = ssl_handshake_server_step(Context(cfg, a), EnvOK,
                                                Wire(a))
            /\ net = Wire(a)
            /\ recalls = 0
            /\ twin = [ssl |-> ssl_handshake_server_step(Context(cfg, b),
                                                         EnvOK, Wire(b)),
                       net |-> Wire(b)]

\* the same call, with the same answers of transport and callbacks, on both
StepClientHelloTwice ==
    /\ ssl.state = SSL_CLIENT_HELLO
    /\ twin.ssl.state = SSL_CLIENT_HELLO
    /\ Failed(ssl.ret) => recalls < MaxRecalls
    /\ \E e \in EnvClientHello :
           /\ ssl' = ssl_handshake_server_step(ssl, e, net)
           /\ twin' = [twin EXCEPT
                          !.ssl = ssl_handshake_server_step(twin.ssl, e,
                                                            twin.net)]
    /\ recalls' = IF Failed(ssl.ret) THEN recalls + 1 ELSE recalls
    /\ net' = net

NextScsv == StepClientHelloTwice

SpecScsv == InitScsv /\ [][NextScsv]_vars

(***************************************************************************)
(* Properties of the driver (under Spec).                                  *)
(***************************************************************************)
\* C1: in a handshake that is not resumed, every call of the driver that
\* returns 0 moves state to the immediate successor in the state order, so
\* a handshake in which every call succeeds visits every state from
\* SSL_HELLO_REQUEST to SSL_HANDSHAKE_WRAPUP in order, the states of the
\* messages that are not sent included.
C1_SuccessorOnSuccess ==
    [][(ssl'.ret = OK /\ ~ssl'.handshake.resume)
           => ssl'.state = ssl.state + 1]_vars

\* a handshake without resumption completed by successful calls only, with a
\* key exchange (RSA) for which ServerKeyExchange is not sent
C1_Witness ==
    /\ ssl.state = SSL_HANDSHAKE_OVER
    /\ ssl.ret = OK
    /\ recalls = 0
    /\ ~ssl.handshake.resume
    /\ ssl.transform_negotiate.ciphersuite_info.key_exchange
           = POLARSSL_KEY_EXCHANGE_RSA
    /\ \A i \in 1..Len(ssl.sent) : ssl.sent[i].name # "ServerKeyExchange"

\* C2: whatever a call of the driver returns, and whether the handshake is
\* full or resumed, state after the call is never earlier in the state
\* order than state before the call.
C2_StateNeverDecreases == [][ssl'.state >= ssl.state]_vars

\* a resumed handshake has jumped from SSL_SERVER_HELLO to
\* SSL_SERVER_CHANGE_CIPHER_SPEC and has gone on to the end
C2_Witness ==
    /\ ssl.handshake.resume
    /\ ssl.state = SSL_HANDSHAKE_OVER
    /\ ssl.derive_calls = 1

\* C3: a call of the driver that returns a non-zero status, retryable or
\* terminal, leaves state equal to its value before the call.
C3_FailedCallKeepsState ==
    [][ssl'.ret # OK => ssl'.state = ssl.state]_vars

\* C4: a call with state = SSL_HANDSHAKE_OVER returns BAD_INPUT_DATA, has
\* not flushed, has not dispatched, and changes nothing of the context but
\* what the call itself reports; so does every further call.
C4_CallWhenOver ==
    [][ssl.state = SSL_HANDSHAKE_OVER
           => /\ ssl'.ret = POLARSSL_ERR_SSL_BAD_INPUT_DATA
              /\ ~ssl'.flushed
              /\ ~ssl'.dispatched
              /\ ssl'.state = SSL_HANDSHAKE_OVER
              /\ ssl' = [EnterCall(ssl) EXCEPT
                            !.ret = POLARSSL_ERR_SSL_BAD_INPUT_DATA]]_vars

\* the driver was called again after a call at SSL_HANDSHAKE_OVER had been
\* refused
C4_Witness ==
    /\ ssl.state = SSL_HANDSHAKE_OVER
    /\ ssl.ret = POLARSSL_ERR_SSL_BAD_INPUT_DATA
    /\ ~ssl.flushed
    /\ recalls = 1
    /\ ssl.sent # <<>>

(***************************************************************************)
(* Properties of the ClientHello parser (under SpecHello).  What the peer  *)
(* sent is read off the bytes on the wire, net, not off the context.       *)
(***************************************************************************)
\* the record is parsed as an SSLv2-compatible ClientHello
WireIsV2 == ssl.sslv2_client_hello /\ net[1] >= 128

\* byte i (from 0) of the handshake message of a modern ClientHello; 0
\* behind the end of what was sent
WireMsg(i) == IF i + 6 <= Len(net) THEN net[i + 6] ELSE 0

\* the highest minor version the client supports
ClientMinor == IF WireIsV2 THEN net[5] ELSE WireMsg(5)

\* min(client max minor, server max minor)
CommonMinor ==
    IF ClientMinor <= ssl.max_minor_ver THEN ClientMinor
    ELSE ssl.max_minor_ver

\* the ClientHello was accepted by the call that has just returned
Accepted == ssl.state = SSL_SERVER_HELLO /\ ssl.ret = OK

\* C5: after an accepted ClientHello, modern or SSLv2-compatible, the
\* negotiated version has major = 3 and
\* min_minor <= minor <= min(client max minor, server max minor).
C5_VersionInRange ==
    Accepted =>
        /\ ssl.major_ver = SSL_MAJOR_VERSION_3
        /\ ssl.min_minor_ver <= ssl.minor_ver
        /\ ssl.minor_ver <= CommonMinor

\* an accepted SSLv2-compatible ClientHello of a client whose highest
\* version is above the server's: the server's maximum was negotiated
C5_Witness ==
    /\ Accepted
    /\ WireIsV2
    /\ ClientMinor > ssl.max_minor_ver
    /\ ssl.minor_ver = ssl.max_minor_ver
    /\ ssl.min_minor_ver > 0

\* the framing the parser checks before it negotiates the version is in
\* order: message type and major version for the SSLv2 shape (never during
\* a renegotiation); record type, record version, record length, the
\* message being there, handshake type and major version otherwise
FramedToVersion ==
    IF WireIsV2
    THEN /\ ssl.renegotiation = SSL_INITIAL_HANDSHAKE
         /\ net[3] = SSL_HS_CLIENT_HELLO
         /\ net[4] = SSL_MAJOR_VERSION_3
         /\ U16(net[1], net[2]) % 32768 >= 17
         /\ U16(net[1], net[2]) % 32768 <= 512
    ELSE /\ net[1] = SSL_MSG_HANDSHAKE
         /\ net[2] = SSL_MAJOR_VERSION_3
         /\ U16(net[4], net[5]) >= 45
         /\ U16(net[4], net[5]) <= 512
         /\ Len(net) >= 5 + U16(net[4], net[5])
         /\ WireMsg(0) = SSL_HS_CLIENT_HELLO
         /\ WireMsg(4) = SSL_MAJOR_VERSION_3

\* the transport lets the call get as far as the version
TransportToVersion(e) ==
    /\ e.flush = OK
    /\ e.fetch_hdr = OK
    /\ WireIsV2 \/ e.fetch_msg = OK

\* C6: when min(client max minor, server max minor) is below the server's
\* minimum minor version, the call that parses the ClientHello (its framing
\* up to the version being in order) sends a fatal protocol_version alert,
\* returns BAD_HS_PROTOCOL_VERSION and leaves state at SSL_CLIENT_HELLO.
C6_LowVersionRefused ==
    [][\A e \in EnvClientHello :
           (/\ ssl.state = SSL_CLIENT_HELLO
            /\ ssl' = ssl_handshake_server_step(ssl, e, net)
            /\ TransportToVersion(e)
            /\ FramedToVersion
            /\ CommonMinor < ssl.min_minor_ver)
           => /\ ssl'.ret = POLARSSL_ERR_SSL_BAD_HS_PROTOCOL_VERSION
              /\ ssl'.alerts = <<SSL_ALERT_MSG_PROTOCOL_VERSION>>
              /\ ssl'.state = SSL_CLIENT_HELLO]_vars

\* a modern ClientHello of a client below the server's minimum was refused
C6_Witness ==
    /\ ~WireIsV2
    /\ FramedToVersion
    /\ CommonMinor < ssl.min_minor_ver
    /\ ssl.ret = POLARSSL_ERR_SSL_BAD_HS_PROTOCOL_VERSION
    /\ ssl.alerts = <<SSL_ALERT_MSG_PROTOCOL_VERSION>>
    /\ ssl.state = SSL_CLIENT_HELLO

\* the lengths of the session id and of the ciphersuite list of a modern
\* ClientHello, as the client declared them
WireSessLen == WireMsg(38)
WireCiphLen == U16(WireMsg(39 + WireSessLen), WireMsg(40 + WireSessLen))

\* the client's list of a modern ClientHello names suite id
ClientOffers(id) ==
    \E k \in 0..((WireCiphLen \div 2) - 1) :
        /\ WireMsg(41 + WireSessLen + 2 * k) = Hi(id)
        /\ WireMsg(42 + WireSessLen + 2 * k) = Lo(id)

\* conditions (a), (b) and (c) for suite id
Eligible(id) ==
    LET info == ssl_ciphersuite_from_id(id)
    IN  /\ info # NULL
        /\ ClientOffers(id)
        /\ info.min_minor_ver <= ssl.minor_ver
        /\ ssl.minor_ver <= info.max_minor_ver
        /\ info.ec => ssl.handshake.ec_curve # 0

\* C7: after an accepted modern ClientHello the selected suite is the first
\* entry of the server's list for the negotiated minor version that (a) is
\* in the client's list, (b) has min_minor <= negotiated minor <= max_minor
\* and (c) is not EC-based unless a curve was selected.
C7_FirstEligibleSuite ==
    (Accepted /\ ~WireIsV2) =>
        LET list == ssl.ciphersuite_list[ssl.minor_ver]
        IN  \E i \in 1..Len(list) :
                /\ list[i] = ssl.session_negotiate.ciphersuite
                /\ Eligible(list[i])
                /\ \A j \in 1..(i - 1) : ~Eligible(list[j])

\* the second entry of the server's list was selected although the client
\* offered the first one too: the first is for TLS 1.2 only and the
\* negotiated version is lower
C7_Witness ==
    /\ Accepted
    /\ ~WireIsV2
    /\ ssl.ciphersuite_list[ssl.minor_ver]
           = <<TLS_RSA_WITH_AES_128_CBC_SHA256, TLS_RSA_WITH_AES_128_CBC_SHA>>
    /\ ClientOffers(TLS_RSA_WITH_AES_128_CBC_SHA256)
    /\ ssl.minor_ver < SSL_MINOR_VERSION_3
    /\ ssl.session_negotiate.ciphersuite = TLS_RSA_WITH_AES_128_CBC_SHA

\* where the extensions of a modern ClientHello begin, and how many bytes
\* of them the client declared (none when the message ends before them)
WireCompLen == WireMsg(41 + WireSessLen + WireCiphLen)
WireExtStart == 44 + WireSessLen + WireCiphLen + WireCompLen
WireExtLen ==
    IF U16(net[4], net[5]) > 42 + WireSessLen + WireCiphLen + WireCompLen
    THEN U16(WireMsg(WireExtStart - 2), WireMsg(WireExtStart - 1))
    ELSE 0

\* the list of the extension at p holds a curve the server supports
WireListsCurve(p) ==
    \E k \in 0..((U16(WireMsg(p + 4), WireMsg(p + 5)) \div 2) - 1) :
        /\ WireMsg(p + 6 + 2 * k) = 0
        /\ WireMsg(p + 7 + 2 * k) \in SupportedCurves

\* some extension among the left bytes from p on is a supported_groups
\* (supported elliptic curves) extension naming a curve the server supports
RECURSIVE WireNamesCurveFrom(_, _)
WireNamesCurveFrom(p, left) ==
    IF left < 4 THEN FALSE
    ELSE \/ /\ U16(WireMsg(p), WireMsg(p + 1))
                   = TLS_EXT_SUPPORTED_ELLIPTIC_CURVES
            /\ WireListsCurve(p)
         \/ WireNamesCurveFrom(p + 4 + U16(WireMsg(p + 2), WireMsg(p + 3)),
                               left - 4 - U16(WireMsg(p + 2), WireMsg(p + 3)))

WireNamesCurve == ~WireIsV2 /\ WireNamesCurveFrom(WireExtStart, WireExtLen)

\* the suite the accepted ClientHello led to is EC-based
SelectedIsEc ==
    LET info == ssl_ciphersuite_from_id(ssl.session_negotiate.ciphersuite)
    IN  info # NULL /\ info.ec

\* C8: an EC-based ciphersuite is never selected when the ClientHello
\* carried no supported_groups extension naming a curve the server supports,
\* that is, when ec_curve is unset at selection time; whatever the client
\* list, the server list, and the number and order of the extensions.
C8_NoEcWithoutCurve ==
    (Accepted /\ SelectedIsEc) =>
        /\ WireNamesCurve
        /\ ssl.handshake.ec_curve \in SupportedCurves

\* the server prefers an EC suite and the client offered it, with two
\* extensions of which the curves extension names no supported curve: the
\* ClientHello was accepted with the server's next suite
C8_Witness ==
    /\ Accepted
    /\ ~WireIsV2
    /\ ssl.ciphersuite_list[ssl.minor_ver][1]
           = TLS_ECDHE_RSA_WITH_AES_128_CBC_SHA
    /\ ClientOffers(TLS_ECDHE_RSA_WITH_AES_128_CBC_SHA)
    /\ WireExtLen > 10
    /\ U16(WireMsg(WireExtStart), WireMsg(WireExtStart + 1))
           = TLS_EXT_SUPPORTED_ELLIPTIC_CURVES
    /\ ~WireNamesCurve
    /\ ssl.handshake.ec_curve = 0
    /\ ssl.session_negotiate.ciphersuite = TLS_RSA_WITH_AES_128_CBC_SHA

\* the client's list, in either shape, holds the SCSV
WireOffersScsv ==
    IF WireIsV2
    THEN \E k \in 0..((U16(net[6], net[7]) \div 3) - 1) :
             /\ net[12 + 3 * k] = 0
             /\ net[13 + 3 * k] = 0
             /\ net[14 + 3 * k] = TLS_EMPTY_RENEGOTIATION_INFO_SCSV
    ELSE ClientOffers(TLS_EMPTY_RENEGOTIATION_INFO_SCSV)

\* C9: when no ciphersuite is acceptable to both sides, the ClientHello
\* parser has sent a fatal handshake_failure alert before it returns
\* NO_CIPHER_CHOSEN, state is still SSL_CLIENT_HELLO, and an SCSV in the
\* client's list of an initial handshake has set secure_renegotiation to
\* SSL_SECURE_RENEGOTIATION.
C9_NoCipherChosenAlerts ==
    ssl.ret = POLARSSL_ERR_SSL_NO_CIPHER_CHOSEN =>
        /\ ssl.alerts = <<SSL_ALERT_MSG_HANDSHAKE_FAILURE>>
        /\ ssl.state = SSL_CLIENT_HELLO
        /\ (ssl.renegotiation = SSL_INITIAL_HANDSHAKE /\ WireOffersScsv)
               => ssl.secure_renegotiation = SSL_SECURE_RENEGOTIATION

\* C10: whenever the ClientHello parser, on either shape, returns a
\* terminal error, a fatal alert has been sent to the peer before.
C10_AlertBeforeError ==
    (/\ ssl.dispatched
     /\ ssl.state = SSL_CLIENT_HELLO
     /\ ssl.ret \in {POLARSSL_ERR_SSL_BAD_HS_CLIENT_HELLO,
                     POLARSSL_ERR_SSL_BAD_HS_PROTOCOL_VERSION,
                     POLARSSL_ERR_SSL_NO_CIPHER_CHOSEN})
    => ssl.alerts # <<>>

(***************************************************************************)
(* A well-formed modern ClientHello, told from the bytes on the wire.      *)
(***************************************************************************)
\* the record length N of a modern ClientHello
WireN == U16(net[4], net[5])

\* the declared lengths of the handshake message, the session id, the
\* ciphersuite list, the compression list and the extensions fit N
WireLengthsFit ==
    /\ WireMsg(1) = 0
    /\ WireN = 4 + U16(WireMsg(2), WireMsg(3))
    /\ WireSessLen <= 32
    /\ WireCiphLen >= 2 /\ WireCiphLen <= 256 /\ WireCiphLen % 2 = 0
    /\ WireCompLen >= 1 /\ WireCompLen <= 16
    /\ WireN >= 42 + WireSessLen + WireCiphLen + WireCompLen
    /\ WireN > 42 + WireSessLen + WireCiphLen + WireCompLen
           => /\ WireN >= 44 + WireSessLen + WireCiphLen + WireCompLen
              /\ ~(WireExtLen > 0 /\ WireExtLen < 4)
              /\ WireN = 44 + WireSessLen + WireCiphLen + WireCompLen
                             + WireExtLen

\* the body of size bytes at p of an extension id is one its parser accepts
\* (for server_name: nothing to parse without a callback)
\* the name list of left bytes at p holds whole entries up to its first
\* host_name entry (or up to its end)
RECURSIVE WireNameListFits(_, _)
WireNameListFits(p, left) ==
    \/ left = 0
    \/ /\ left >= 3
       /\ U16(WireMsg(p + 1), WireMsg(p + 2)) + 3 <= left
       /\ \/ WireMsg(p) = TLS_EXT_SERVERNAME_HOSTNAME
          \/ WireNameListFits(p + 3 + U16(WireMsg(p + 1), WireMsg(p + 2)),
                              left - 3 - U16(WireMsg(p + 1), WireMsg(p + 2)))

WireExtBodyFits(id, p, size) ==
    CASE id = TLS_EXT_SERVERNAME ->
           \/ ~ssl.f_sni
           \/ /\ size >= 2
              /\ U16(WireMsg(p), WireMsg(p + 1)) + 2 = size
              /\ WireNameListFits(p + 2, size - 2)
      [] id = TLS_EXT_RENEGOTIATION_INFO ->
           IF ssl.renegotiation = SSL_INITIAL_HANDSHAKE
           THEN size = 1 /\ WireMsg(p) = 0
           ELSE /\ size = 1 + ssl.verify_data_len
                /\ WireMsg(p) = ssl.verify_data_len
                /\ \A k \in 1..ssl.verify_data_len :
                       WireMsg(p + k) = ssl.peer_verify_data[k]
      [] id = TLS_EXT_SIG_ALG ->
           \/ ssl.renegotiation = SSL_RENEGOTIATION
           \/ /\ size >= 2
              /\ U16(WireMsg(p), WireMsg(p + 1)) + 2 = size
              /\ size % 2 = 0
      [] id = TLS_EXT_SUPPORTED_ELLIPTIC_CURVES ->
           /\ size >= 2
           /\ U16(WireMsg(p), WireMsg(p + 1)) + 2 = size
           /\ size % 2 = 0
      [] id = TLS_EXT_SUPPORTED_POINT_FORMATS ->
           size >= 1 /\ WireMsg(p) + 1 = size
      [] OTHER -> TRUE

\* the left bytes from p on are whole extensions with fitting bodies
RECURSIVE WireExtsFit(_, _)
WireExtsFit(p, left) ==
    \/ left = 0
    \/ /\ left >= 4
       /\ 4 + U16(WireMsg(p + 2), WireMsg(p + 3)) <= left
       /\ WireExtBodyFits(U16(WireMsg(p), WireMsg(p + 1)), p + 4,
                          U16(WireMsg(p + 2), WireMsg(p + 3)))
       /\ WireExtsFit(p + 4 + U16(WireMsg(p + 2), WireMsg(p + 3)),
                      left - 4 - U16(WireMsg(p + 2), WireMsg(p + 3)))

\* some extension among the left bytes from p on has the id
RECURSIVE WireHasExtFrom(_, _, _)
WireHasExtFrom(id, p, left) ==
    /\ left >= 4
    /\ \/ U16(WireMsg(p), WireMsg(p + 1)) = id
       \/ WireHasExtFrom(id, p + 4 + U16(WireMsg(p + 2), WireMsg(p + 3)),
                         left - 4 - U16(WireMsg(p + 2), WireMsg(p + 3)))

WireHasExt(id) == ~WireIsV2 /\ WireHasExtFrom(id, WireExtStart, WireExtLen)

\* a modern ClientHello with nothing wrong in its framing, version, lengths
\* and extensions, and without the SCSV when it starts a renegotiation
WireWellFormed ==
    /\ ~WireIsV2
    /\ FramedToVersion
    /\ CommonMinor >= ssl.min_minor_ver
    /\ WireLengthsFit
    /\ WireExtsFit(WireExtStart, WireExtLen)
    /\ ssl.renegotiation = SSL_RENEGOTIATION => ~WireOffersScsv

\* every transport operation and callback of the call succeeds
EnvSucceeds(e) ==
    /\ e.flush = OK /\ e.fetch_hdr = OK /\ e.fetch_msg = OK
    /\ e.alert = OK /\ e.sni = OK

\* secure_renegotiation when the policy is applied: an initial handshake
\* that signals with the SCSV or with renegotiation_info has become secure
SecureAtPolicy ==
    IF /\ ssl.renegotiation = SSL_INITIAL_HANDSHAKE
       /\ WireOffersScsv \/ WireHasExt(TLS_EXT_RENEGOTIATION_INFO)
    THEN SSL_SECURE_RENEGOTIATION
    ELSE ssl.secure_renegotiation

\* the four conditions of the renegotiation policy
PolicyForbids ==
    \/ /\ SecureAtPolicy = SSL_LEGACY_RENEGOTIATION
       /\ ssl.allow_legacy_renegotiation = SSL_LEGACY_BREAK_HANDSHAKE
    \/ /\ ssl.renegotiation = SSL_RENEGOTIATION
       /\ SecureAtPolicy = SSL_SECURE_RENEGOTIATION
       /\ ~WireHasExt(TLS_EXT_RENEGOTIATION_INFO)
    \/ /\ ssl.renegotiation = SSL_RENEGOTIATION
       /\ SecureAtPolicy = SSL_LEGACY_RENEGOTIATION
       /\ ssl.allow_legacy_renegotiation = SSL_LEGACY_NO_RENEGOTIATION
    \/ /\ ssl.renegotiation = SSL_RENEGOTIATION
       /\ SecureAtPolicy = SSL_LEGACY_RENEGOTIATION
       /\ WireHasExt(TLS_EXT_RENEGOTIATION_INFO)

\* C11: for every handshake kind, secure_renegotiation, legacy policy and
\* presence of renegotiation_info, a well-formed modern ClientHello is
\* rejected by the renegotiation policy (fatal handshake_failure alert, then
\* BAD_HS_CLIENT_HELLO) if and only if one of the four conditions holds.
C11_PolicyTable ==
    [][\A e \in EnvClientHello :
           (/\ ssl.state = SSL_CLIENT_HELLO
            /\ ssl' = ssl_handshake_server_step(ssl, e, net)
            /\ EnvSucceeds(e)
            /\ WireWellFormed)
           => ((/\ ssl'.ret = POLARSSL_ERR_SSL_BAD_HS_CLIENT_HELLO
                /\ ssl'.alerts = <<SSL_ALERT_MSG_HANDSHAKE_FAILURE>>
                /\ ssl'.state = SSL_CLIENT_HELLO)
               <=> PolicyForbids)]_vars

\* a well-formed ClientHello starting a renegotiation of a secure session
\* without renegotiation_info, under a policy allowing legacy renegotiation,
\* was refused
C11_Witness ==
    /\ WireWellFormed
    /\ ssl.renegotiation = SSL_RENEGOTIATION
    /\ ssl.secure_renegotiation = SSL_SECURE_RENEGOTIATION
    /\ ssl.allow_legacy_renegotiation = SSL_LEGACY_ALLOW_RENEGOTIATION
    /\ ~WireHasExt(TLS_EXT_RENEGOTIATION_INFO)
    /\ WireExtLen > 0
    /\ ssl.ret = POLARSSL_ERR_SSL_BAD_HS_CLIENT_HELLO
    /\ ssl.alerts = <<SSL_ALERT_MSG_HANDSHAKE_FAILURE>>

RsaPayloadArrives(e) ==
    /\ ssl.state = SSL_CLIENT_KEY_EXCHANGE
    /\ ~Failed(ssl.ret)
    /\ ssl.transform_negotiate.ciphersuite_info.key_exchange =
           POLARSSL_KEY_EXCHANGE_RSA
    /\ ssl.rsa_key
    /\ e.flush = OK /\ e.read = OK /\ e.rng = OK /\ e.derive = OK
    /\ e.rec.msgtype = SSL_MSG_HANDSHAKE
    /\ e.rec.msg[1] = SSL_HS_CLIENT_KEY_EXCHANGE

\* the payload's declared lengths disagree with the modulus size
RsaPayloadMisframed(e) ==
    LET i == IF ssl.minor_ver # SSL_MINOR_VERSION_0 THEN 6 ELSE 4
    IN  \/ /\ ssl.minor_ver # SSL_MINOR_VERSION_0
           /\ Len(e.rec.msg) >= 6
           /\ U16(e.rec.msg[5], e.rec.msg[6]) # ssl.rsa_key_len
        \/ Len(e.rec.msg) # i + ssl.rsa_key_len

\* the decryption fails, or yields something other than 48 bytes that
\* start with the version the client advertised
RsaPayloadUndecryptable(e) ==
    \/ e.rsa_decrypt.ret # OK
    \/ Len(e.rsa_decrypt.out) # PremasterLen
    \/ e.rsa_decrypt.out[1] # ssl.handshake.max_major_ver
    \/ e.rsa_decrypt.out[2] # ssl.handshake.max_minor_ver

\* C13: with an RSA key exchange and a configured private key, every
\* malformed ClientKeyExchange payload (declared length different from the
\* modulus size, handshake length inconsistent with it, decryption failure,
\* decrypted length other than 48, wrong version bytes) leaves the premaster
\* as 48 bytes drawn from the RNG with pmslen = 48, and the step does not
\* abort: it derives the keys and advances the state.
C13_MalformedRsaContinues ==
    [][\A e \in EnvClientKeyExchange(ssl) :
          ( /\ RsaPayloadArrives(e)
            /\ RsaPayloadMisframed(e) \/ RsaPayloadUndecryptable(e)
            /\ ssl' = ssl_handshake_server_step(ssl, e, net) )
          => /\ ssl'.ret = OK
             /\ ssl'.state = SSL_CERTIFICATE_VERIFY
             /\ ssl'.handshake.pmslen = PremasterLen
             /\ \A i \in 0..(PremasterLen - 1) : PremasterAt(ssl', i) = 82
             /\ ssl'.derive_calls = ssl.derive_calls + 1]_vars

(***************************************************************************)
(* The lengths of a modern ClientHello                                     *)
(***************************************************************************)
\* what the fields of the ClientHello declare, each variable field counted
\* with its length prefix: 38 bytes of handshake header, version and
\* random, the session id behind its 1-byte length, the ciphersuites behind
\* their 2-byte length, the compression methods behind their 1-byte length,
\* and the extensions behind their 2-byte length when there are any
WireDeclaredSum ==
    38 + 1 + WireSessLen + 2 + WireCiphLen + 1 + WireCompLen
       + (IF WireExtLen # 0 THEN 2 + WireExtLen ELSE 0)

\* C14: a modern ClientHello is accepted only if the lengths its fields
\* declare sum to the record length N exactly: none whose declared lengths
\* sum to more or to less than N is accepted.
C14_LengthSumLaw ==
    (Accepted /\ ~WireIsV2) => WireN = WireDeclaredSum

(***************************************************************************)
(* How far the wire readers read.  For each reader: one more than the      *)
(* highest offset it reads in the slice it was given, following its loads  *)
(* in the order of the code; the slice is read off the wire at position    *)
(* buf of the handshake message.                                           *)
(***************************************************************************)
Larger(a, b) == IF a > b THEN a ELSE b

\* the while loop of ssl_parse_servername_ext, p counted from buf: each
\* round loads p[1] and p[2], then p[0]; the callback gets the name
RECURSIVE ServernameLoopReads(_, _, _)
ServernameLoopReads(buf, p, servername_list_size) ==
    IF servername_list_size = 0 THEN 0
    ELSE LET hostname_len == U16(WireMsg(buf + p + 1), WireMsg(buf + p + 2))
         IN  IF hostname_len + 3 > servername_list_size THEN p + 3
             ELSE IF WireMsg(buf + p) = TLS_EXT_SERVERNAME_HOSTNAME
                  THEN p + 3 + hostname_len
                  ELSE Larger(p + 3,
                              ServernameLoopReads(buf, p + hostname_len + 3,
                                  servername_list_size - (hostname_len + 3)))

ServernameReads(buf, len) ==
    LET servername_list_size == U16(WireMsg(buf), WireMsg(buf + 1))
    IN  IF servername_list_size + 2 # len THEN 2
        ELSE Larger(2, ServernameLoopReads(buf, 2, servername_list_size))

\* ssl_parse_signature_algorithms_ext: each round loads p[1], and p[0] of
\* an RSA pair, and stops at the first hash it knows
RECURSIVE SigAlgLoopReads(_, _, _)
SigAlgLoopReads(buf, p, sig_alg_list_size) ==
    IF sig_alg_list_size <= 0 THEN 0
    ELSE IF /\ WireMsg(buf + p + 1) = SSL_SIG_RSA
            /\ WireMsg(buf + p) \in SigAlgHashes
         THEN p + 2
         ELSE Larger(p + 2,
                     SigAlgLoopReads(buf, p + 2, sig_alg_list_size - 2))

SignatureAlgorithmsReads(buf, len) ==
    LET sig_alg_list_size == U16(WireMsg(buf), WireMsg(buf + 1))
    IN  IF sig_alg_list_size + 2 # len \/ sig_alg_list_size % 2 # 0 THEN 2
        ELSE Larger(2, SigAlgLoopReads(buf, 2, sig_alg_list_size))

\* ssl_parse_supported_elliptic_curves: each round loads p[0] and p[1]
RECURSIVE EllipticCurvesLoopReads(_, _, _)
EllipticCurvesLoopReads(buf, p, list_size) ==
    IF list_size <= 0 THEN 0
    ELSE IF /\ WireMsg(buf + p) = 0
            /\ WireMsg(buf + p + 1) \in SupportedCurves
         THEN p + 2
         ELSE Larger(p + 2,
                     EllipticCurvesLoopReads(buf, p + 2, list_size - 2))

EllipticCurvesReads(buf, len) ==
    LET list_size == U16(WireMsg(buf), WireMsg(buf + 1))
    IN  IF list_size + 2 # len \/ list_size % 2 # 0 THEN 2
        ELSE Larger(2, EllipticCurvesLoopReads(buf, 2, list_size))

\* ssl_parse_supported_point_formats: the loop starts at p = buf + 2 and
\* loads p[0] in each round
RECURSIVE PointFormatsLoopReads(_, _, _)
PointFormatsLoopReads(buf, p, list_size) ==
    IF list_size = 0 THEN 0
    ELSE IF WireMsg(buf + p) \in {POLARSSL_ECP_PF_UNCOMPRESSED,
                                  POLARSSL_ECP_PF_COMPRESSED}
         THEN p + 1
         ELSE Larger(p + 1, PointFormatsLoopReads(buf, p + 1, list_size - 1))

PointFormatsReads(buf, len) ==
    LET list_size == WireMsg(buf)
    IN  IF list_size + 1 # len THEN 1
        ELSE Larger(1, PointFormatsLoopReads(buf, 2, list_size))

\* the compression scan: up to the first DEFLATE, or all comp_len bytes
CompressionScanReads(at, comp_len) ==
    LET hits == {i \in 0..(comp_len - 1) :
                    WireMsg(at + i) = SSL_COMPRESS_DEFLATE}
    IN  IF hits = {} THEN comp_len
        ELSE 1 + CHOOSE i \in hits : \A j \in hits : i <= j

\* ssl_parse_client_hello from the check of the handshake length to the
\* extension walk: the length bytes it loads one after the other, each
\* behind the field the one before declared, and the compression scan
ClientHelloReads ==
    LET sess_len == WireSessLen
        ciph_len == WireCiphLen
        comp_len == WireCompLen
        has_ext == WireN > 42 + sess_len + ciph_len + comp_len
    IN  IF WireMsg(1) # 0 \/ WireN # 4 + U16(WireMsg(2), WireMsg(3))
        THEN 38
        ELSE IF sess_len > 32 THEN 39
        ELSE IF ciph_len < 2 \/ ciph_len > 256 \/ ciph_len % 2 # 0
        THEN 41 + sess_len
        ELSE IF comp_len < 1 \/ comp_len > 16
        THEN 42 + sess_len + ciph_len
        ELSE IF has_ext /\ (\/ (WireExtLen > 0 /\ WireExtLen < 4)
                            \/ WireN # 44 + sess_len + ciph_len + comp_len
                                          + WireExtLen)
        THEN 44 + sess_len + ciph_len + comp_len
        ELSE Larger(IF has_ext THEN 44 + sess_len + ciph_len + comp_len
                    ELSE 42 + sess_len + ciph_len,
                    IF ssl.zlib_support
                    THEN 42 + sess_len + ciph_len
                         + CompressionScanReads(42 + sess_len + ciph_len,
                                                comp_len)
                    ELSE 0)

\* the reader the extension walk hands the body of extension id to
ExtensionReads(id, buf, len) ==
    CASE id = TLS_EXT_SERVERNAME ->
           IF ssl.f_sni THEN ServernameReads(buf, len) ELSE 0
      [] id = TLS_EXT_SIG_ALG ->
           IF ssl.renegotiation = SSL_RENEGOTIATION THEN 0
           ELSE SignatureAlgorithmsReads(buf, len)
      [] id = TLS_EXT_SUPPORTED_ELLIPTIC_CURVES -> EllipticCurvesReads(buf, len)
      [] id = TLS_EXT_SUPPORTED_POINT_FORMATS -> PointFormatsReads(buf, len)
      [] OTHER -> 0

\* the call that left this state got the record and found its framing and
\* version in order: it went on to the fields of the ClientHello
ParsedFields ==
    /\ ssl.dispatched
    /\ ssl.ret \notin {POLARSSL_ERR_NET_WANT_READ, POLARSSL_ERR_NET_CONN_RESET}
    /\ ~WireIsV2
    /\ FramedToVersion
    /\ CommonMinor >= ssl.min_minor_ver

\* ... and found the lengths in order and no SCSV to refuse: it went on to
\* the extension walk
WalkedExtensions ==
    /\ ParsedFields
    /\ WireMsg(1) = 0
    /\ WireN = 4 + U16(WireMsg(2), WireMsg(3))
    /\ WireSessLen <= 32
    /\ WireCiphLen >= 2 /\ WireCiphLen <= 256 /\ WireCiphLen % 2 = 0
    /\ WireCompLen >= 1 /\ WireCompLen <= 16
    /\ WireN > 42 + WireSessLen + WireCiphLen + WireCompLen
           => /\ ~(WireExtLen > 0 /\ WireExtLen < 4)
              /\ WireN = 44 + WireSessLen + WireCiphLen + WireCompLen
                             + WireExtLen
    /\ ssl.renegotiation = SSL_RENEGOTIATION => ~WireOffersScsv

\* every reader the walk calls from p on stays inside its body; the walk
\* goes on behind an extension whose body fits
RECURSIVE WireExtReadsInside(_, _)
WireExtReadsInside(p, left) ==
    \/ left < 4
    \/ 4 + U16(WireMsg(p + 2), WireMsg(p + 3)) > left
    \/ /\ ExtensionReads(U16(WireMsg(p), WireMsg(p + 1)), p + 4,
                         U16(WireMsg(p + 2), WireMsg(p + 3)))
              <= U16(WireMsg(p + 2), WireMsg(p + 3))
       /\ WireExtBodyFits(U16(WireMsg(p), WireMsg(p + 1)), p + 4,
                          U16(WireMsg(p + 2), WireMsg(p + 3)))
              => WireExtReadsInside(
                     p + 4 + U16(WireMsg(p + 2), WireMsg(p + 3)),
                     left - 4 - U16(WireMsg(p + 2), WireMsg(p + 3)))

\* C15: no wire reader reads a byte outside the slice it was given: the
\* ClientHello parser reads a ClientHello of N bytes at offsets below N
\* only, and the server_name, signature_algorithms, supported_groups and
\* ec_point_formats parsers read a body of len bytes at offsets below len
\* only, whatever the body's length and the length of its entries.
C15_ReadsInsideSlice ==
    /\ ParsedFields => ClientHelloReads <= WireN
    /\ WalkedExtensions => WireExtReadsInside(WireExtStart, WireExtLen)

(***************************************************************************)
(* The session of the ServerHello                                          *)
(***************************************************************************)
\* everything the ServerHello step calls succeeds, the cache lookup aside
ServerHelloSucceeds(e) ==
    /\ e.flush = OK /\ e.rng = OK /\ e.rng2 = OK
    /\ e.derive = OK /\ e.write = OK

\* C16: ServerHello takes the resumption shortcut (resume set, keys derived
\* in the same step, state set to SSL_SERVER_CHANGE_CIPHER_SPEC) if and only
\* if the handshake is an initial one, a session-cache callback is
\* installed and the cache reports a hit; in every other case resume is
\* cleared, a fresh 32-byte session id comes from the RNG and state
\* advances to SSL_SERVER_CERTIFICATE.
C16_ResumptionShortcut ==
    [][ssl.state = SSL_SERVER_HELLO =>
       \A e \in EnvServerHello :
          ( /\ ServerHelloSucceeds(e)
            /\ ssl' = ssl_handshake_server_step(ssl, e, net) )
          => IF /\ ssl.renegotiation = SSL_INITIAL_HANDSHAKE
                /\ ssl.f_get_cache
                /\ e.cache = OK
             THEN /\ ssl'.handshake.resume
                  /\ ssl'.derive_calls = ssl.derive_calls + 1
                  /\ ssl'.state = SSL_SERVER_CHANGE_CIPHER_SPEC
                  /\ ssl'.session_negotiate.id = ssl.session_negotiate.id
             ELSE /\ ~ssl'.handshake.resume
                  /\ ssl'.derive_calls = ssl.derive_calls
                  /\ ssl'.state = SSL_SERVER_CERTIFICATE
                  /\ ssl'.session_negotiate.length = 32
                  /\ ssl'.session_negotiate.id = Fill(32, 73)]_vars

\* a ServerHello step has just resumed a session
C16_Witness ==
    /\ ssl.state = SSL_SERVER_CHANGE_CIPHER_SPEC
    /\ ssl.ret = OK
    /\ ssl.handshake.resume
    /\ ssl.cache_lookup # NULL
    /\ ssl.derive_calls = 1

(***************************************************************************)
(* A CertificateVerify that fails                                          *)
(***************************************************************************)
\* the call just made read the client's CertificateVerify record and
\* returned an error for it: wrong message, wrong signature algorithm,
\* inconsistent length, or a signature that does not verify
CertificateVerifyFailed ==
    /\ ssl.calc_verify # <<>>
    /\ ssl.ret \in {POLARSSL_ERR_SSL_BAD_HS_CERTIFICATE_VERIFY,
                    POLARSSL_ERR_CRYPTO_FAILED}

\* the session is where a handshake whose CertificateVerify failed must
\* not get to
PastCertificateVerify ==
    \/ ssl.state = SSL_CLIENT_CHANGE_CIPHER_SPEC
    \/ ssl.state = SSL_HANDSHAKE_OVER

\* C17: a failure of CertificateVerify processing is fatal: the driver
\* returns an error, and the session is not in
\* SSL_CLIENT_CHANGE_CIPHER_SPEC nor in SSL_HANDSHAKE_OVER, neither when the
\* failing call returns nor after the call of the driver that follows it.
C17_VerifyFailureIsFatal ==
    [][CertificateVerifyFailed
          => ~PastCertificateVerify /\ ~PastCertificateVerify']_vars

(***************************************************************************)
(* Server name indication                                                  *)
(***************************************************************************)
\* how many of the extensions among the left bytes from p on have the id
RECURSIVE WireCountExtFrom(_, _, _)
WireCountExtFrom(id, p, left) ==
    IF left < 4 THEN 0
    ELSE (IF U16(WireMsg(p), WireMsg(p + 1)) = id THEN 1 ELSE 0)
         + WireCountExtFrom(id, p + 4 + U16(WireMsg(p + 2), WireMsg(p + 3)),
                            left - 4 - U16(WireMsg(p + 2), WireMsg(p + 3)))

\* where the body of the first extension with the id starts
RECURSIVE WireExtBodyFrom(_, _, _)
WireExtBodyFrom(id, p, left) ==
    IF left < 4 \/ U16(WireMsg(p), WireMsg(p + 1)) = id THEN p + 4
    ELSE WireExtBodyFrom(id, p + 4 + U16(WireMsg(p + 2), WireMsg(p + 3)),
                         left - 4 - U16(WireMsg(p + 2), WireMsg(p + 3)))

\* the name list of left bytes at p has an entry of type host_name
RECURSIVE WireHasHostName(_, _)
WireHasHostName(p, left) ==
    /\ left >= 3
    /\ U16(WireMsg(p + 1), WireMsg(p + 2)) + 3 <= left
    /\ \/ WireMsg(p) = TLS_EXT_SERVERNAME_HOSTNAME
       \/ WireHasHostName(p + 3 + U16(WireMsg(p + 1), WireMsg(p + 2)),
                          left - 3 - U16(WireMsg(p + 1), WireMsg(p + 2)))

\* the name of its first host_name entry
RECURSIVE WireHostName(_, _)
WireHostName(p, left) ==
    IF left < 3 \/ U16(WireMsg(p + 1), WireMsg(p + 2)) + 3 > left THEN <<>>
    ELSE IF WireMsg(p) = TLS_EXT_SERVERNAME_HOSTNAME
         THEN [k \in 1..U16(WireMsg(p + 1), WireMsg(p + 2)) |->
                  WireMsg(p + 2 + k)]
         ELSE WireHostName(p + 3 + U16(WireMsg(p + 1), WireMsg(p + 2)),
                           left - 3 - U16(WireMsg(p + 1), WireMsg(p + 2)))

\* the first host name of the server_name extension of the ClientHello
WireServerName ==
    LET b == WireExtBodyFrom(TLS_EXT_SERVERNAME, WireExtStart, WireExtLen)
    IN  WireHostName(b + 2, U16(WireMsg(b), WireMsg(b + 1)))

\* a well-formed ClientHello with one server_name extension that names a
\* host
WireNamesHost ==
    /\ WireWellFormed
    /\ WireCountExtFrom(TLS_EXT_SERVERNAME, WireExtStart, WireExtLen) = 1
    /\ LET b == WireExtBodyFrom(TLS_EXT_SERVERNAME, WireExtStart, WireExtLen)
       IN  WireHasHostName(b + 2, U16(WireMsg(b), WireMsg(b + 1)))

C19_NoHashContextLeft == ssl.md_ctx_live = 0

(***************************************************************************)
(* The signalling ciphersuite                                              *)
(***************************************************************************)
\* the lengths an SSLv2-compatible ClientHello declares are in order
WireV2LengthsFit ==
    /\ U16(net[6], net[7]) >= 3 /\ U16(net[6], net[7]) % 3 = 0
    /\ U16(net[8], net[9]) <= 32
    /\ U16(net[10], net[11]) >= 8 /\ U16(net[10], net[11]) <= 32
    /\ U16(net[1], net[2]) % 32768
           = 9 + U16(net[6], net[7]) + U16(net[8], net[9])
               + U16(net[10], net[11])

\* framing, version and lengths let the parser get to its scan of the
\* client's ciphersuites
WireScanned ==
    /\ FramedToVersion
    /\ CommonMinor >= ssl.min_minor_ver
    /\ IF WireIsV2 THEN WireV2LengthsFit ELSE WireLengthsFit

\* C20: TLS_EMPTY_RENEGOTIATION_INFO_SCSV in the ciphersuite list of a
\* ClientHello received during a renegotiation has the parser send a fatal
\* handshake_failure alert and return BAD_HS_CLIENT_HELLO with
\* secure_renegotiation unchanged; in an initial handshake the same value
\* sets secure_renegotiation to SSL_SECURE_RENEGOTIATION.
C20_ScsvInRenegotiation ==
    [][ssl.state = SSL_CLIENT_HELLO =>
       \A e \in EnvClientHello :
          ( /\ e.flush = OK /\ e.fetch_hdr = OK /\ e.fetch_msg = OK
            /\ e.alert = OK
            /\ WireScanned
            /\ WireOffersScsv
            /\ ssl' = ssl_handshake_server_step(ssl, e, net) )
          => IF ssl.renegotiation = SSL_RENEGOTIATION
             THEN /\ ssl'.alerts = <<SSL_ALERT_MSG_HANDSHAKE_FAILURE>>
                  /\ ssl'.ret = POLARSSL_ERR_SSL_BAD_HS_CLIENT_HELLO
                  /\ ssl'.secure_renegotiation = ssl.secure_renegotiation
                  /\ ssl'.state = SSL_CLIENT_HELLO
             ELSE ssl'.secure_renegotiation = SSL_SECURE_RENEGOTIATION]_vars

\* a renegotiation ClientHello with the SCSV has been refused, the session
\* still on legacy renegotiation
C20_Witness ==
    /\ ssl.renegotiation = SSL_RENEGOTIATION
    /\ ~WireIsV2
    /\ WireScanned
    /\ WireOffersScsv
    /\ ssl.state = SSL_CLIENT_HELLO
    /\ ssl.alerts = <<SSL_ALERT_MSG_HANDSHAKE_FAILURE>>
    /\ ssl.ret = POLARSSL_ERR_SSL_BAD_HS_CLIENT_HELLO
    /\ ssl.secure_renegotiation = SSL_LEGACY_RENEGOTIATION

(***************************************************************************)
(* The renegotiation_info extension                                        *)
(***************************************************************************)
\* where the body of the first renegotiation_info extension starts that the
\* walk over the left bytes from p on gets to; 0 when it gets to none
RECURSIVE WireRenegotiationInfoFrom(_, _)
WireRenegotiationInfoFrom(p, left) ==
    IF left < 4 \/ 4 + U16(WireMsg(p + 2), WireMsg(p + 3)) > left THEN 0
    ELSE IF U16(WireMsg(p), WireMsg(p + 1)) = TLS_EXT_RENEGOTIATION_INFO
    THEN p + 4
    ELSE IF WireExtBodyFits(U16(WireMsg(p), WireMsg(p + 1)), p + 4,
                            U16(WireMsg(p + 2), WireMsg(p + 3)))
    THEN WireRenegotiationInfoFrom(
             p + 4 + U16(WireMsg(p + 2), WireMsg(p + 3)),
             left - 4 - U16(WireMsg(p + 2), WireMsg(p + 3)))
    ELSE 0

WireRenegotiationInfo == WireRenegotiationInfoFrom(WireExtStart, WireExtLen)

\* the parser is handed a renegotiation_info body by the extension walk
RenegotiationInfoParsed ==
    /\ ~WireIsV2
    /\ WireScanned
    /\ ssl.renegotiation = SSL_RENEGOTIATION => ~WireOffersScsv
    /\ WireRenegotiationInfo # 0

\* the body is the one the handshake calls for: one zero byte in an initial
\* handshake, verify_data_len and the client's verify data in a
\* renegotiation
RenegotiationInfoMatches ==
    WireExtBodyFits(TLS_EXT_RENEGOTIATION_INFO, WireRenegotiationInfo,
                    U16(WireMsg(WireRenegotiationInfo - 2),
                        WireMsg(WireRenegotiationInfo - 1)))

\* C21: the renegotiation_info parser accepts the body only if it is one
\* zero byte (initial handshake) or verify_data_len followed by the
\* client's verify data of the previous handshake (renegotiation); any
\* other body causes a fatal handshake_failure alert and
\* BAD_HS_CLIENT_HELLO; and whenever the parser accepts the body, in an
\* initial handshake or in a renegotiation, secure_renegotiation is
\* SSL_SECURE_RENEGOTIATION afterwards.
C21_RenegotiationInfoParser ==
    [][ssl.state = SSL_CLIENT_HELLO =>
       \A e \in EnvClientHello :
          ( /\ EnvSucceeds(e)
            /\ RenegotiationInfoParsed
            /\ ssl' = ssl_handshake_server_step(ssl, e, net) )
          => IF RenegotiationInfoMatches
             THEN ssl'.secure_renegotiation = SSL_SECURE_RENEGOTIATION
             ELSE /\ ssl'.alerts = <<SSL_ALERT_MSG_HANDSHAKE_FAILURE>>
                  /\ ssl'.ret = POLARSSL_ERR_SSL_BAD_HS_CLIENT_HELLO
                  /\ ssl'.state = SSL_CLIENT_HELLO
         ]_vars

(***************************************************************************)
(* The hash of the ServerKeyExchange signature                             *)
(***************************************************************************)
\* the ClientHello carries signature_algorithms with a pair (hash, RSA)
\* whose hash the server knows
WireOffersRsaHash ==
    /\ WireHasExt(TLS_EXT_SIG_ALG)
    /\ LET b == WireExtBodyFrom(TLS_EXT_SIG_ALG, WireExtStart, WireExtLen)
       IN  \E k \in 0..((U16(WireMsg(b), WireMsg(b + 1)) \div 2) - 1) :
               /\ WireMsg(b + 2 + 2 * k) \in SigAlgHashes
               /\ WireMsg(b + 3 + 2 * k) = SSL_SIG_RSA

\* the selected suite signs its ServerKeyExchange with the RSA key
SignedKeyExchange ==
    ssl.transform_negotiate.ciphersuite_info.key_exchange
        \in {POLARSSL_KEY_EXCHANGE_DHE_RSA, POLARSSL_KEY_EXCHANGE_ECDHE_RSA}

\* C22: after ciphersuite selection succeeds with TLS 1.2 and a DHE-RSA or
\* ECDHE-RSA suite, sig_alg is one of the supported hashes, taken from a
\* usable RSA signature_algorithms pair of the ClientHello: a ClientHello
\* that offered no such pair never ends with such a suite selected.
C22_SignatureHashSet ==
    ( /\ Accepted
      /\ ssl.minor_ver = SSL_MINOR_VERSION_3
      /\ SignedKeyExchange )
    => /\ SigAlgHasDigest(ssl.handshake.sig_alg)
       /\ WireOffersRsaHash

(***************************************************************************)
(* The signature_algorithms extension                                      *)
(***************************************************************************)
\* the order in which the spec has the server prefer the hashes
SigAlgPreference ==
    <<SSL_HASH_SHA512, SSL_HASH_SHA384, SSL_HASH_SHA256, SSL_HASH_SHA224,
      SSL_HASH_SHA1, SSL_HASH_MD5>>

\* the known hashes the ClientHello pairs with RSA in signature_algorithms
WireRsaHashes ==
    LET b == WireExtBodyFrom(TLS_EXT_SIG_ALG, WireExtStart, WireExtLen)
    IN  {WireMsg(b + 2 + 2 * k) :
            k \in {j \in 0..((U16(WireMsg(b), WireMsg(b + 1)) \div 2) - 1) :
                      /\ WireMsg(b + 2 + 2 * j) \in SigAlgHashes
                      /\ WireMsg(b + 3 + 2 * j) = SSL_SIG_RSA}}

\* the one of them that comes first in the preference order
WirePreferredHash ==
    SigAlgPreference[
        CHOOSE i \in 1..Len(SigAlgPreference) :
            /\ SigAlgPreference[i] \in WireRsaHashes
            /\ \A j \in 1..(i - 1) : SigAlgPreference[j] \notin WireRsaHashes]

\* C23: for every well-formed signature_algorithms body, the stored sig_alg
\* is, among the hashes the client paired with signature RSA, the one that
\* ranks first in the order SHA512, SHA384, SHA256, SHA224, SHA1, MD5,
\* wherever the pairs stand in the client's list.
C23_HashByPreference ==
    ( /\ Accepted
      /\ ssl.renegotiation = SSL_INITIAL_HANDSHAKE
      /\ WireOffersRsaHash
      /\ WireCountExtFrom(TLS_EXT_SIG_ALG, WireExtStart, WireExtLen) = 1 )
    => ssl.handshake.sig_alg = WirePreferredHash


(***************************************************************************)
(* The ec_point_formats extension                                          *)
(***************************************************************************)
\* where the body of the ec_point_formats extension starts
WirePointFormats ==
    WireExtBodyFrom(TLS_EXT_SUPPORTED_POINT_FORMATS, WireExtStart, WireExtLen)

\* the places in its list (0 the first) of the formats the server knows
WireKnownFormats ==
    {k \in 0..(WireMsg(WirePointFormats) - 1) :
        WireMsg(WirePointFormats + 1 + k)
            \in {POLARSSL_ECP_PF_UNCOMPRESSED, POLARSSL_ECP_PF_COMPRESSED}}

\* C24: for every well-formed ec_point_formats body (1-byte length at
\* offset 0, list from offset 1 on), ec_point_format is set to the first
\* listed byte that is uncompressed or compressed, the first byte of the
\* list included, and is left unchanged when no listed byte is either.
C24_FirstKnownFormat ==
    [][ssl.state = SSL_CLIENT_HELLO =>
       \A e \in EnvClientHello :
          ( /\ EnvSucceeds(e)
            /\ WireWellFormed
            /\ WireCountExtFrom(TLS_EXT_SUPPORTED_POINT_FORMATS,
                                WireExtStart, WireExtLen) = 1
            /\ ssl' = ssl_handshake_server_step(ssl, e, net) )
          => ssl'.handshake.ec_point_format =
                IF WireKnownFormats = {}
                THEN ssl.handshake.ec_point_format
                ELSE WireMsg(WirePointFormats + 1
                             + CHOOSE k \in WireKnownFormats :
                                   \A j \in WireKnownFormats : k <= j)
      ]_vars

(***************************************************************************)
(* The session id handed to the session cache                              *)
(***************************************************************************)
\* the call consulted the session cache
CacheConsulted(e) ==
    /\ ssl.renegotiation = SSL_INITIAL_HANDSHAKE
    /\ ssl.f_get_cache
    /\ e.flush = OK /\ e.rng = OK

\* C25: when ServerHello consults the session cache, the session id and
\* its length handed to the cache are those of the ClientHello; a
\* ClientHello with an empty session id is never looked up as a 32-byte id
\* and never ends in a resumption.
C25_CacheSeesClientId ==
    [][ssl.state = SSL_SERVER_HELLO =>
       \A e \in EnvServerHello :
          ( /\ CacheConsulted(e)
            /\ ssl' = ssl_handshake_server_step(ssl, e, net) )
          => /\ ssl'.cache_lookup.length = Msg(ssl, 38)
             /\ \A k \in 1..Msg(ssl, 38) :
                    ssl'.cache_lookup.id[k] = Msg(ssl, 38 + k)
             /\ Msg(ssl, 38) = 0 => ~ssl'.handshake.resume
      ]_vars

(***************************************************************************)
(* The SSLv2-compatible ClientHello                                        *)
(***************************************************************************)
\* C26: an SSLv2-compatible ClientHello (first record byte with the high
\* bit set) is accepted only in an initial handshake: in a renegotiation
\* the parser sends a fatal handshake_failure alert and returns
\* BAD_HS_CLIENT_HELLO, and the negotiated version, the session id,
\* randbytes and state are as they were.
C26_V2OnlyInitially ==
    [][( /\ ssl.state = SSL_CLIENT_HELLO
         /\ ssl.renegotiation # SSL_INITIAL_HANDSHAKE
         /\ ssl.sslv2_client_hello
         /\ Hdr(ssl, 0) >= 128 )
       => \A e \in EnvClientHello :
             ( /\ e.flush = OK /\ e.alert = OK
               /\ ssl' = ssl_handshake_server_step(ssl, e, net) )
             => /\ ssl'.alerts = <<SSL_ALERT_MSG_HANDSHAKE_FAILURE>>
                /\ ssl'.ret = POLARSSL_ERR_SSL_BAD_HS_CLIENT_HELLO
                /\ ssl'.major_ver = ssl.major_ver
                /\ ssl'.minor_ver = ssl.minor_ver
                /\ ssl'.session_negotiate = ssl.session_negotiate
                /\ ssl'.handshake.randbytes = ssl.handshake.randbytes
                /\ ssl'.state = ssl.state
      ]_vars

\* an SSLv2-compatible ClientHello has been refused in a renegotiation
C26_Witness ==
    /\ ssl.state = SSL_CLIENT_HELLO
    /\ ssl.renegotiation = SSL_RENEGOTIATION
    /\ ssl.sslv2_client_hello
    /\ Hdr(ssl, 0) >= 128
    /\ ssl.alerts = <<SSL_ALERT_MSG_HANDSHAKE_FAILURE>>
    /\ ssl.ret = POLARSSL_ERR_SSL_BAD_HS_CLIENT_HELLO

\* the 3-byte list of an SSLv2-compatible ClientHello holds (0, 0, low)
WireOffersV2(low) ==
    \E k \in 0..((U16(net[6], net[7]) \div 3) - 1) :
        /\ net[12 + 3 * k] = 0
        /\ net[13 + 3 * k] = 0
        /\ net[14 + 3 * k] = low

\* suite id can be selected for minor version minor on such a ClientHello
EligibleV2(id, minor) ==
    LET info == ssl_ciphersuite_from_id(id)
    IN  /\ info # NULL
        /\ Hi(id) = 0
        /\ WireOffersV2(Lo(id))
        /\ info.min_minor_ver <= minor
        /\ minor <= info.max_minor_ver

\* C27: for every accepted SSLv2-compatible ClientHello the selected
\* ciphersuite has high byte zero, is in the client's 3-byte list as
\* (0, 0, low byte), is the first such entry of the server's list whose
\* version range holds the negotiated minor version, secure_renegotiation
\* is SSL_SECURE_RENEGOTIATION if and only if the list held (0, 0, 0xFF),
\* and state has advanced to SSL_SERVER_HELLO.
C27_V2Selection ==
    [][(ssl.state = SSL_CLIENT_HELLO /\ WireIsV2)
       => \A e \in EnvClientHello :
             ( /\ ssl' = ssl_handshake_server_step(ssl, e, net)
               /\ ssl'.ret = OK )
             => LET list == ssl'.ciphersuite_list[ssl'.minor_ver]
                    sel == ssl'.session_negotiate.ciphersuite
                IN  /\ Hi(sel) = 0
                    /\ \E i \in 1..Len(list) :
                          /\ list[i] = sel
                          /\ EligibleV2(list[i], ssl'.minor_ver)
                          /\ \A j \in 1..(i - 1) :
                                 ~EligibleV2(list[j], ssl'.minor_ver)
                    /\ ssl'.secure_renegotiation = SSL_SECURE_RENEGOTIATION
                           <=> WireOffersV2(TLS_EMPTY_RENEGOTIATION_INFO_SCSV)
                    /\ ssl'.state = SSL_SERVER_HELLO
      ]_vars

\* an SSLv2-compatible ClientHello with the SCSV was accepted with the
\* server's second suite, the first one having a non-zero high byte, and
\* is secure
C27_Witness ==
    /\ Accepted
    /\ WireIsV2
    /\ Hi(ssl.ciphersuite_list[ssl.minor_ver][1]) # 0
    /\ ssl.session_negotiate.ciphersuite = ssl.ciphersuite_list[ssl.minor_ver][2]
    /\ WireOffersV2(TLS_EMPTY_RENEGOTIATION_INFO_SCSV)
    /\ ssl.secure_renegotiation = SSL_SECURE_RENEGOTIATION

(***************************************************************************)
(* The extensions of ServerHello                                           *)
(***************************************************************************)
\* the call hands a ServerHello to the record layer
ServerHelloWritten ==
    /\ Len(ssl'.sent) = Len(ssl.sent) + 1
    /\ ssl'.sent[Len(ssl'.sent)].name = "ServerHello"

\* the bytes it carries after the compression byte
ServerHelloTail == ssl'.sent[Len(ssl'.sent)].data[7]

\* the renegotiation_info extension with payload data, in its block
RenegotiationInfoBlock(data) ==
    <<Hi(5 + Len(data)), Lo(5 + Len(data)),
      Hi(TLS_EXT_RENEGOTIATION_INFO), Lo(TLS_EXT_RENEGOTIATION_INFO),
      Hi(1 + Len(data)), Lo(1 + Len(data)), Len(data)>> \o data

\* C28: ServerHello carries a renegotiation_info extension if and only if
\* secure_renegotiation is SSL_SECURE_RENEGOTIATION; its payload is then
\* own_verify_data followed by peer_verify_data and the extensions block
\* declares 5 + 2 * verify_data_len bytes; otherwise no byte follows the
\* compression byte.
C28_ServerHelloExtensions ==
    [][(ssl.state = SSL_SERVER_HELLO /\ ServerHelloWritten)
       => ServerHelloTail =
             IF ssl.secure_renegotiation = SSL_SECURE_RENEGOTIATION
             THEN RenegotiationInfoBlock(
                      SubSeq(ssl.own_verify_data, 1, ssl.verify_data_len)
                      \o SubSeq(ssl.peer_verify_data, 1, ssl.verify_data_len))
             ELSE <<>>
      ]_vars

\* C28, amended: as C28, with the payload being peer_verify_data (the
\* client's verify data) followed by own_verify_data (the server's).
C28_PeerDataFirst ==
    [][(ssl.state = SSL_SERVER_HELLO /\ ServerHelloWritten)
       => ServerHelloTail =
             IF ssl.secure_renegotiation = SSL_SECURE_RENEGOTIATION
             THEN RenegotiationInfoBlock(
                      SubSeq(ssl.peer_verify_data, 1, ssl.verify_data_len)
                      \o SubSeq(ssl.own_verify_data, 1, ssl.verify_data_len))
             ELSE <<>>
      ]_vars

\* the ServerHello of a secure renegotiation has been handed to the record
\* layer, with both verify data in its extension
C28_Witness ==
    /\ ssl.renegotiation = SSL_RENEGOTIATION
    /\ ssl.secure_renegotiation = SSL_SECURE_RENEGOTIATION
    /\ ssl.verify_data_len = VerifyDataLen
    /\ \E i \in 1..Len(ssl.sent) :
           /\ ssl.sent[i].name = "ServerHello"
           /\ Len(ssl.sent[i].data[7]) = 7 + 2 * VerifyDataLen

(***************************************************************************)
(* ServerKeyExchange and CertificateRequest: sent or skipped               *)
(***************************************************************************)
\* the call hands one message of that name to the record layer
Written(name) ==
    /\ Len(ssl'.sent) = Len(ssl.sent) + 1
    /\ ssl'.sent[Len(ssl'.sent)].name = name

\* what a signed ServerKeyExchange needs of the configuration and of the
\* handshake: the RSA key and, in TLS 1.2, a hash to sign with
CanSign ==
    SignedKeyExchange =>
        /\ ssl.rsa_key
        /\ ssl.minor_ver = SSL_MINOR_VERSION_3
               => SigAlgHasDigest(ssl.handshake.sig_alg)

\* C29: a ServerKeyExchange message is handed to the record layer if and
\* only if the selected key exchange is DHE-RSA, ECDHE-RSA or DHE-PSK; for
\* every other key exchange the step emits nothing, returns success and
\* advances state to SSL_CERTIFICATE_REQUEST.
C29_KeyExchangeSentOrSkipped ==
    [][( /\ ssl.state = SSL_SERVER_KEY_EXCHANGE
         /\ CanSign
         /\ ssl' = ssl_handshake_server_step(ssl, EnvOK, net) )
       => IF ssl.transform_negotiate.ciphersuite_info.key_exchange
                \in {POLARSSL_KEY_EXCHANGE_DHE_RSA,
                     POLARSSL_KEY_EXCHANGE_ECDHE_RSA,
                     POLARSSL_KEY_EXCHANGE_DHE_PSK}
          THEN Written("ServerKeyExchange")
          ELSE /\ ssl'.sent = ssl.sent
               /\ ssl'.ret = OK
               /\ ssl'.state = SSL_CERTIFICATE_REQUEST
      ]_vars


\* the server asks the client for a certificate
CertificateRequested ==
    /\ ssl.transform_negotiate.ciphersuite_info.key_exchange
           \notin {POLARSSL_KEY_EXCHANGE_PSK, POLARSSL_KEY_EXCHANGE_DHE_PSK}
    /\ ssl.authmode # SSL_VERIFY_NONE

\* the hash the request advertises in TLS 1.2
RequestedHash ==
    IF ssl.transform_negotiate.ciphersuite_info.mac = POLARSSL_MD_SHA384
    THEN SSL_HASH_SHA384
    ELSE SSL_HASH_SHA256

\* C30: a CertificateRequest message is emitted if and only if the
\* selected key exchange is neither PSK nor DHE-PSK and authmode is not
\* NONE; when it is skipped nothing is written; either way state advances
\* to SSL_SERVER_HELLO_DONE; under TLS 1.2 the one advertised pair is
\* (SHA384, RSA) if the MAC of the suite is SHA384 and (SHA256, RSA)
\* otherwise, and the same hash is stored as verify_sig_alg.
C30_CertificateRequest ==
    [][ssl.state = SSL_CERTIFICATE_REQUEST =>
       \A e \in EnvWrite :
          ( /\ e.flush = OK
            /\ ssl' = ssl_handshake_server_step(ssl, e, net) )
          => /\ ssl'.state = SSL_SERVER_HELLO_DONE
             /\ IF CertificateRequested
                THEN /\ Written("CertificateRequest")
                     /\ ssl.minor_ver = SSL_MINOR_VERSION_3 =>
                           /\ ssl'.sent[Len(ssl'.sent)].data[1]
                                  = <<RequestedHash, SSL_SIG_RSA>>
                           /\ ssl'.handshake.verify_sig_alg = RequestedHash
                ELSE ssl'.sent = ssl.sent
      ]_vars

\* a TLS 1.2 handshake on a suite whose MAC is SHA384 has asked for the
\* client's certificate, advertising (SHA384, RSA)
C30_Witness ==
    /\ ssl.state = SSL_SERVER_HELLO_DONE
    /\ ssl.minor_ver = SSL_MINOR_VERSION_3
    /\ ssl.transform_negotiate.ciphersuite_info.mac = POLARSSL_MD_SHA384
    /\ ssl.handshake.verify_sig_alg = SSL_HASH_SHA384
    /\ ssl.sent[Len(ssl.sent)].name = "CertificateRequest"
    /\ ssl.sent[Len(ssl.sent)].data[1] = <<SSL_HASH_SHA384, SSL_SIG_RSA>>

(***************************************************************************)
(* The DN list of CertificateRequest                                       *)
(***************************************************************************)
\* the bytes the first k subject names of the CA chain take in the list
RECURSIVE DnListSize(_)
DnListSize(k) ==
    IF k = 0 THEN 0 ELSE DnListSize(k - 1) + 2 + ssl.ca_chain[k]

\* C31: for every configured CA chain the CertificateRequest builder stops
\* appending names before the output would exceed 4096 bytes: the emitted
\* message is never longer than 4096 bytes, and its 16-bit total length of
\* the names is the sum of 2 + dn_len over the names written.
C31_DnListBounded ==
    \A i \in 1..Len(ssl.sent) :
        ssl.sent[i].name = "CertificateRequest" =>
            /\ ssl.sent[i].data[2] <= 4096
            /\ \E k \in 0..Len(ssl.ca_chain) :
                   /\ U16(ssl.sent[i].data[3], ssl.sent[i].data[4])
                          = DnListSize(k)
                   /\ ssl.sent[i].data[2]
                          = 6 + 2 * Len(ssl.sent[i].data[1]) + 2
                              + DnListSize(k)

(***************************************************************************)
(* CertificateVerify: skipped or checked                                   *)
(***************************************************************************)
\* nothing is there to verify: a PSK key exchange, or no peer certificate
NothingToVerify ==
    \/ ssl.transform_negotiate.ciphersuite_info.key_exchange
           \in {POLARSSL_KEY_EXCHANGE_PSK, POLARSSL_KEY_EXCHANGE_DHE_PSK}
    \/ ssl.session_negotiate.peer_cert = NULL

\* C32: the CertificateVerify step is skipped (no record read, success,
\* state SSL_CLIENT_CHANGE_CIPHER_SPEC) if and only if the key exchange is
\* PSK or DHE-PSK or the peer sent no certificate; when the peer sent a
\* certificate under another key exchange, state gets to
\* SSL_CLIENT_CHANGE_CIPHER_SPEC only by a call that has read a
\* CertificateVerify record and checked its signature.
C32_SkippedOrChecked ==
    [][ssl.state = SSL_CERTIFICATE_VERIFY =>
       \A e \in EnvCertificateVerify(ssl) :
          ( /\ e.flush = OK
            /\ ssl' = ssl_handshake_server_step(ssl, e, net) )
          => IF NothingToVerify
             THEN /\ ssl'.ret = OK
                  /\ ssl'.state = SSL_CLIENT_CHANGE_CIPHER_SPEC
                  /\ ssl'.in_msg = ssl.in_msg
                  /\ ssl'.calc_verify = ssl.calc_verify
             ELSE ssl'.state = SSL_CLIENT_CHANGE_CIPHER_SPEC
                     => /\ e.read = OK
                        /\ e.rec.msgtype = SSL_MSG_HANDSHAKE
                        /\ ssl'.in_msg[1] = SSL_HS_CERTIFICATE_VERIFY
                        /\ e.rsa_pkcs1_verify = OK
                        /\ ssl'.ret = OK
      ]_vars

\* C33: under a PSK key exchange ClientKeyExchange succeeds only if the
\* identity in the message is the configured identity, same length and same
\* bytes, and after a success premaster is the 16-bit psk_len, psk_len zero
\* bytes, the 16-bit psk_len and the psk, with pmslen = 4 + 2 * psk_len,
\* whatever the buffer held before.
PskPremaster(psk) ==
    <<Hi(Len(psk)), Lo(Len(psk))>> \o Fill(Len(psk), 0)
        \o <<Hi(Len(psk)), Lo(Len(psk))>> \o psk

C33_PskPremaster ==
    [][( /\ ssl.state = SSL_CLIENT_KEY_EXCHANGE
         /\ ssl.transform_negotiate.ciphersuite_info.key_exchange
                = POLARSSL_KEY_EXCHANGE_PSK )
       => \A e \in EnvClientKeyExchange(ssl) :
             ( /\ e.flush = OK
               /\ ssl' = ssl_handshake_server_step(ssl, e, net)
               /\ ssl'.ret = OK )
             => /\ Len(ssl'.in_msg) >= 6 + Len(ssl.psk_identity)
                /\ U16(ssl'.in_msg[5], ssl'.in_msg[6]) = Len(ssl.psk_identity)
                /\ SubSeq(ssl'.in_msg, 7, 6 + Len(ssl.psk_identity))
                       = ssl.psk_identity
                /\ ssl'.handshake.pmslen = 4 + 2 * Len(ssl.psk)
                /\ \A i \in 0..(ssl'.handshake.pmslen - 1) :
                       PremasterAt(ssl', i) = PskPremaster(ssl.psk)[i + 1]
      ]_vars

\* C34: ssl_derive_keys is invoked once in a handshake that reaches the
\* ChangeCipherSpec exchange: by the ServerHello step when it resumes a
\* session, otherwise by the ClientKeyExchange step once the premaster is
\* there and before state leaves SSL_CLIENT_KEY_EXCHANGE; never by both,
\* and a step that ended in a retryable status does not invoke it again
\* when it is re-entered (only a ClientKeyExchange step in which
\* ssl_derive_keys failed terminally stays in its state and can invoke it
\* again).
C34_DeriveOnce ==
    [][LET d == ssl'.derive_calls - ssl.derive_calls
       IN  /\ d \in {0, 1}
           /\ d = 1 =>
                 \/ /\ ssl.state = SSL_SERVER_HELLO
                    /\ ssl'.handshake.resume
                    /\ ssl'.state = SSL_SERVER_CHANGE_CIPHER_SPEC
                 \/ /\ ssl.state = SSL_CLIENT_KEY_EXCHANGE
                    /\ ~ssl.handshake.resume
                    /\ ssl'.handshake.pmslen > 0
                    /\ ssl'.state \in {SSL_CLIENT_KEY_EXCHANGE,
                                       SSL_CERTIFICATE_VERIFY}
           /\ ( /\ ssl.state \in {SSL_SERVER_HELLO, SSL_CLIENT_KEY_EXCHANGE}
                /\ ssl'.state \in {SSL_SERVER_CHANGE_CIPHER_SPEC,
                                   SSL_CERTIFICATE_VERIFY} ) => d = 1
           /\ (d = 1 /\ (ssl'.ret = OK \/ ssl'.ret \in Retryable))
                 => ssl'.state # ssl.state
           /\ (d = 1 /\ ssl.derive_calls > 0)
                 => ssl.state = SSL_CLIENT_KEY_EXCHANGE
           /\ (d = 1 /\ ssl'.state = ssl.state)
                 => Failed(ssl'.ret) /\ ssl'.ret \notin Retryable
           /\ ssl'.handshake.resume
                 => ssl'.state >= SSL_SERVER_CHANGE_CIPHER_SPEC
           /\ ssl'.state >= SSL_CERTIFICATE_VERIFY => ssl'.derive_calls >= 1
      ]_vars

\* a full handshake went through ClientKeyExchange after a call that had
\* to be repeated, and the keys were derived once
C34_Witness ==
    /\ ssl.state = SSL_CERTIFICATE_VERIFY
    /\ ssl.ret = OK
    /\ ~ssl.handshake.resume
    /\ recalls = 1
    /\ ssl.handshake.pmslen > 0
    /\ ssl.derive_calls = 1

\* C35: each of ServerHello, ServerKeyExchange, CertificateRequest and
\* ServerHelloDone is handed to the record layer at most once in a
\* handshake, whatever retryable statuses the write and the flush return
\* and however often the driver is called again: a call that follows a
\* retryable status hands over none of the messages written so far.
TimesWritten(s, name) ==
    Cardinality({i \in 1..Len(s.sent) : s.sent[i].name = name})

ServerFlight ==
    {"ServerHello", "ServerKeyExchange", "CertificateRequest",
     "ServerHelloDone"}

C35_WrittenOnce ==
    [][\A name \in ServerFlight :
          /\ TimesWritten(ssl', name) <= 1
          /\ (ssl.ret \in Retryable /\ TimesWritten(ssl, name) = 1)
                => /\ TimesWritten(ssl', name) = 1
                   /\ Len(ssl'.sent) >= Len(ssl.sent)
                   /\ SubSeq(ssl'.sent, 1, Len(ssl.sent)) = ssl.sent
      ]_vars

\* the write of ServerHelloDone has just returned a retryable status, with
\* the four messages written once each, and the driver can be called again
C35_Witness ==
    /\ recalls = 0
    /\ ssl.dispatched
    /\ ssl.state = SSL_CLIENT_CERTIFICATE
    /\ ssl.ret = POLARSSL_ERR_NET_WANT_WRITE
    /\ \A name \in ServerFlight : TimesWritten(ssl, name) = 1

\* C36: the ClientHello message is folded into the transcript hash exactly
\* once in a handshake and before any byte of ServerHello is produced, also
\* when the fetch returns a retryable status and the ClientHello step is
\* re-entered; a ClientHello step that ends in a retryable status has
\* folded nothing.
TimesFolded(s, name) ==
    Cardinality({i \in 1..Len(s.transcript) : s.transcript[i] = name})

C36_ClientHelloFoldedOnce ==
    [][/\ (ssl.state = SSL_CLIENT_HELLO /\ ssl'.ret \in Retryable)
             => ssl'.transcript = ssl.transcript
       /\ (~Failed(ssl.ret) \/ ssl.ret \in Retryable)
             => TimesFolded(ssl', "ClientHello") <= 1
       /\ ssl'.state > SSL_CLIENT_HELLO
             => /\ TimesFolded(ssl', "ClientHello") >= 1
                /\ ssl'.transcript[1] = "ClientHello"
      ]_vars

\* C37: the digest the CertificateVerify signature is checked against is
\* computed before the CertificateVerify record is read: it covers the
\* handshake messages up to and including ClientKeyExchange and never the
\* CertificateVerify message; when the read returns a retryable status and
\* the step is entered again, the digest computed again is the same.
C37_DigestBeforeRead ==
    [][( /\ ssl.state = SSL_CERTIFICATE_VERIFY
         /\ ~NothingToVerify
         /\ ssl'.dispatched )
       => /\ ssl'.calc_verify = ssl.transcript
          /\ ssl.transcript # <<>>
          /\ ssl.transcript[Len(ssl.transcript)] = "ClientKeyExchange"
          /\ ssl'.transcript # ssl.transcript
                => /\ Len(ssl'.transcript) = Len(ssl'.calc_verify) + 1
                   /\ SubSeq(ssl'.transcript, 1, Len(ssl'.calc_verify))
                          = ssl'.calc_verify
          /\ ssl'.ret \in Retryable
                => /\ ssl'.state = ssl.state
                   /\ ssl'.transcript = ssl.transcript
          /\ (ssl.ret \in Retryable /\ ssl.dispatched)
                => ssl'.calc_verify = ssl.calc_verify
      ]_vars

\* the read of the CertificateVerify record has just returned a retryable
\* status: the digest is computed, and the step can be entered again
C37_Witness ==
    /\ ssl.state = SSL_CERTIFICATE_VERIFY
    /\ ~NothingToVerify
    /\ ssl.dispatched
    /\ ssl.ret = POLARSSL_ERR_NET_WANT_READ
    /\ recalls = 0
    /\ ssl.calc_verify = ssl.transcript
    /\ ssl.calc_verify # <<>>

\* C38: with an RSA key exchange, a configured key, a correctly framed
\* ClientKeyExchange and an RNG that succeeds, the status the step returns
\* and the state it leaves are the same for two runs that differ only in
\* what the RSA decryption yields: a valid premaster (48 bytes with the
\* advertised version) or an invalid one (failed decryption, other length,
\* other version).
RsaPayloadFramed(e) ==
    /\ e.flush = OK /\ e.read = OK /\ e.rng = OK
    /\ e.rec.msgtype = SSL_MSG_HANDSHAKE
    /\ e.rec.msg[1] = SSL_HS_CLIENT_KEY_EXCHANGE
    /\ ~RsaPayloadMisframed(e)

C38_OutcomeIgnoresPremaster ==
    ( /\ ssl.state = SSL_CLIENT_KEY_EXCHANGE
      /\ ssl.transform_negotiate.ciphersuite_info.key_exchange
             = POLARSSL_KEY_EXCHANGE_RSA
      /\ ssl.rsa_key )
    => \A e \in EnvClientKeyExchange(ssl) :
          RsaPayloadFramed(e)
          => \A o \in RsaDecryptOutcomes(ssl) :
                LET a == ssl_handshake_server_step(ssl, e, net)
                    b == ssl_handshake_server_step(
                             ssl, [e EXCEPT !.rsa_decrypt = o], net)
                IN  /\ a.ret = b.ret
                    /\ a.state = b.state

\* the step has gone on to SSL_CERTIFICATE_VERIFY with the 48 bytes of an
\* honest client's premaster, as it does with the RNG's bytes in their
\* place
C38_Witness ==
    /\ ssl.state = SSL_CERTIFICATE_VERIFY
    /\ ssl.ret = OK
    /\ ssl.transform_negotiate.ciphersuite_info.key_exchange
           = POLARSSL_KEY_EXCHANGE_RSA
    /\ ssl.handshake.pmslen = PremasterLen
    /\ ssl.handshake.premaster
           = <<ssl.handshake.max_major_ver, ssl.handshake.max_minor_ver>>
                 \o Fill(PremasterLen - 2, 80)

\* C39: a modern ClientHello received in a renegotiation and rejected by
\* the parser (framing, SCSV, renegotiation_info mismatch, policy, no
\* common ciphersuite) leaves the parameters of the established connection
\* as they were: minor_ver and secure_renegotiation after the failed step
\* are their values before it.
C39_RejectedRenegotiationKeepsParameters ==
    [][( /\ ssl.state = SSL_CLIENT_HELLO
         /\ ssl.renegotiation = SSL_RENEGOTIATION
         /\ ~WireIsV2
         /\ ssl'.dispatched
         /\ Failed(ssl'.ret) )
       => /\ ssl'.minor_ver = ssl.minor_ver
          /\ ssl'.secure_renegotiation = ssl.secure_renegotiation
      ]_vars

(***************************************************************************)
(* The handshake under a caller that keeps calling                         *)
(***************************************************************************)
\* what a call of the driver can meet in the state of s
EnvAt(s) ==
    CASE s.state = SSL_CLIENT_HELLO -> EnvClientHello
      [] s.state = SSL_SERVER_HELLO -> EnvServerHello
      [] s.state = SSL_SERVER_KEY_EXCHANGE -> EnvServerKeyExchange
      [] s.state = SSL_CLIENT_CERTIFICATE -> EnvClientCertificate
      [] s.state = SSL_CLIENT_KEY_EXCHANGE -> EnvClientKeyExchange(s)
      [] s.state = SSL_CERTIFICATE_VERIFY -> EnvCertificateVerify(s)
      [] s.state \in {SSL_SERVER_CERTIFICATE, SSL_CERTIFICATE_REQUEST,
                      SSL_SERVER_HELLO_DONE, SSL_SERVER_CHANGE_CIPHER_SPEC,
                      SSL_SERVER_FINISHED} -> EnvWrite
      [] s.state \in {SSL_CLIENT_CHANGE_CIPHER_SPEC, SSL_CLIENT_FINISHED}
             -> EnvRead
      [] OTHER -> {EnvOK} \cup EnvFlush

\* a call in which the client's message is valid and every collaborator
\* succeeds: the driver returns 0
GoodCall ==
    /\ ssl.state # SSL_HANDSHAKE_OVER
    /\ \E e \in EnvAt(ssl) :
          /\ ssl' = ssl_handshake_server_step(ssl, e, net)
          /\ ssl'.ret = OK
    /\ UNCHANGED <<net, recalls, twin>>

\* a call in which the transport would block: the driver returns a
\* retryable status (at most MaxBlocked such calls in a handshake)
BlockedCall ==
    /\ ssl.state # SSL_HANDSHAKE_OVER
    /\ recalls < MaxBlocked
    /\ \E e \in EnvAt(ssl) :
          /\ ssl' = ssl_handshake_server_step(ssl, e, net)
          /\ ssl'.ret \in Retryable
    /\ recalls' = recalls + 1
    /\ UNCHANGED <<net, twin>>

\* the ClientHello of the input is one the server accepts, and a TLS 1.2
\* handshake has a signature hash the server can compute
HelloAccepted(i) ==
    LET c == ssl_handshake_server_step(Context(i[2], i[1]), EnvOK,
                                       Wire(i[1]))
        a == ssl_handshake_server_step(c, EnvOK, Wire(i[1]))
    IN  /\ a.ret = OK
        /\ a.minor_ver = SSL_MINOR_VERSION_3
               => SigAlgHasDigest(a.handshake.sig_alg)

\* the handshakes with a valid ClientHello of a server that holds what its
\* ciphersuite asks of it: the RSA key for the RSA, DHE-RSA and ECDHE-RSA
\* key exchanges, the pre-shared key for PSK and DHE-PSK
InitLive ==
    \E i \in HandshakeInputs :
        /\ \/ i[2].rsa_key
           \/ i[2].suites[1] \in {TLS_PSK_WITH_AES_128_CBC_SHA,
                                  TLS_DHE_PSK_WITH_AES_128_CBC_SHA}
        /\ HelloAccepted(i)
        /\ ssl = Context(i[2], i[1])
        /\ net = Wire(i[1])
        /\ recalls = 0
        /\ twin = NULL

NextLive == GoodCall \/ BlockedCall

\* the caller keeps calling, and the calls do not block for ever
SpecLive == InitLive /\ [][NextLive]_vars /\ WF_vars(GoodCall)

\* C40: from SSL_HELLO_REQUEST, with a valid ClientHello and valid answers
\* of the client, when no collaborator goes on returning a retryable status
\* for ever and the caller keeps calling the driver, state eventually is
\* SSL_HANDSHAKE_OVER, in a full and in a resumed handshake; and in no state
\* but SSL_HANDSHAKE_OVER does a call that returns 0 leave state as it was.
\* State changes by calls of the driver only, so the handshake can complete
\* only if in every state before SSL_HANDSHAKE_OVER some call that does not
\* fail terminally moves state on.
C40_HandshakeCompletes ==
    ssl.state # SSL_HANDSHAKE_OVER
    => /\ \E e \in EnvAt(ssl) :
             LET r == ssl_handshake_server_step(ssl, e, net)
             IN  /\ r.ret = OK \/ r.ret \in Retryable
                 /\ r.state # ssl.state
       /\ \A e \in EnvAt(ssl) :
             LET r == ssl_handshake_server_step(ssl, e, net)
             IN  r.ret = OK => r.state # ssl.state

=============================================================================
